---------------------------- MODULE Spec2Model ----------------------------
(***************************************************************************)
(* A model of hatchery's interval-based background execution subsystem:    *)
(* CronJob (Run / Stop, the ticker, the tick executions and their sends on *)
(* the unbuffered error and output channels) and the Application's job     *)
(* table (PostContract / startCronJob / ensureCronTab / Shutdown).         *)
(*                                                                         *)
(* Every goroutine is a record with a program counter; one action is one   *)
(* atomic step of one goroutine, so the interleavings of the model are the *)
(* interleavings of the Go program.  Fields that the code reads and writes *)
(* without synchronisation (c.ticker, a.cronTab) are read and written in   *)
(* separate steps, so a racing reader sees either the old or the new value.*)
(*                                                                         *)
(* time.Ticker (Go before 1.23, the toolchain of this 2019 code base) has  *)
(* a channel C of capacity 1: the runtime sends a tick without blocking    *)
(* and drops it when C is full; Ticker.Stop() stops further sends and      *)
(* neither drains nor closes C.                                            *)
(***************************************************************************)
EXTENDS Naturals, Sequences, FiniteSets, Bags

\* ------------------------------------------------------------------ bounds
MaxReqs == 2        \* PostContract requests (one CronJob at most per request)
MaxRuns == 2        \* direct Run() calls on the job of the CronJob harness
MaxStops == 1       \* direct Stop() calls on the job of the CronJob harness
MaxTicks == 2       \* ticks delivered to the job of the CronJob harness
MaxAppTicks == 1    \* ticks delivered to the jobs of the Application
MaxShutdowns == 1   \* Shutdown() calls

JobIds == 1..MaxReqs
Names == {"a", "b"}

VARIABLES
    created,      \* the CronJob instances constructed so far
    runningFlag,  \* CronJob.runningFlag, per job
    ticker,       \* CronJob.ticker, per job: 0 is nil, t > 0 is tickers[j][t]
    tickers,      \* per job, the time.Tickers its Run calls created
    runs,         \* per job, the bag of goroutines inside Run()
    stops,        \* per job, the bag of Stop() calls, running or returned
    execs,        \* per job, the tick executions (go func() { ... } in Run)
    drains,       \* per job, the loops draining Errors() and Output()
    reqs,         \* the PostContract requests
    lib,          \* Application.Lib: the names with a stored manifest
    once,         \* Application.once
    cronTab,      \* Application.cronTab: made = FALSE is the nil map
    cronMu,       \* Application.cronMu: <<>> is unlocked, else the holder
    sd            \* the Shutdown() calls

VARIABLES
    txns,         \* the PostTransaction requests handled so far, in order
    ledger,       \* Application.Ledger: the Transactions, front to back
    heapPuts      \* the calls of Application.Heap.Put, in order

VARIABLES
    nodes,        \* the Transactions given to the linked-list MemLedger, by address
    head,         \* the linked-list MemLedger's head (0 is nil)
    tail,         \* the linked-list MemLedger's tail (0 is nil)
    expect,       \* the addresses a ledger with these calls holds, oldest first
    last          \* the last call on the linked-list MemLedger and its result

VARIABLES
    fsDir,        \* FSLibrary.BasePath on disk: "absent", "ok" or "noexec" (mode 0600)
    fsFiles,      \* the files in BasePath: name -> content
    fsOnce,       \* FSLibrary.once has run
    fsRoot,       \* the process may enter a directory without the x bit
    fsLast        \* the last call on the FSLibrary and its result

VARIABLES
    calls         \* the calls of docker.Contract.Execute, the last one may be running

VARIABLES
    appends       \* the concurrent requests at NewTransaction and Ledger.Append

VARIABLES
    boltDb,       \* BoltDBHeap.once and db: "unopened", "open", or "nil" after a failed Open
    buckets,      \* the buckets of the BoltDB file: bucket -> key -> value
    lastPut,      \* for a bucket and key, the value of the last Put that returned nil
    heapLast      \* the last call on the BoltDBHeap and its result

txnVars == <<txns, ledger, heapPuts>>
ledVars == <<nodes, head, tail, expect, last>>
fsVars == <<fsDir, fsFiles, fsOnce, fsRoot, fsLast>>
dockerVars == <<calls>>
VARIABLES
    query         \* the last GetSCHeap request and its response

heapVars == <<boltDb, buckets, lastPut, heapLast>>
moreVars == <<appends, heapVars, query>>
extVars == <<txnVars, ledVars, fsVars, dockerVars, moreVars>>

\* The state outside the background subsystem before any request.
InitTxn == txns = <<>> /\ ledger = <<>> /\ heapPuts = <<>>
NoCall == [op |-> "none", id |-> "", ret |-> 0, ok |-> FALSE, panic |-> FALSE, pre |-> <<>>]
InitLedger == nodes = <<>> /\ head = 0 /\ tail = 0 /\ expect = <<>> /\ last = NoCall
NoManifest == [Type |-> "", Image |-> "", Cmd |-> "", Args |-> <<>>]
NoContract == [Name |-> "", Image |-> "", Command |-> "", Args |-> <<>>]
NoFSCall ==
    [op |-> "none", name |-> "", manifest |-> NoManifest, pulled |-> FALSE,
     existed |-> FALSE, err |-> "none", contract |-> NoContract]
InitFS ==
    /\ fsDir = "absent" /\ fsFiles = <<>> /\ fsOnce = FALSE /\ fsRoot = FALSE
    /\ fsLast = NoFSCall
InitDocker == calls = <<>>
InitAppends == appends = <<>>
NoHeapCall == [op |-> "none", bucket |-> "", key |-> "", value |-> <<>>, err |-> "none", ret |-> <<>>]
InitHeap == boltDb = "unopened" /\ buckets = <<>> /\ lastPut = <<>> /\ heapLast = NoHeapCall
NoQuery == [name |-> "", key |-> "", status |-> 0, body |-> <<>>, puts |-> 0]
InitQuery == query = NoQuery
InitMore == InitAppends /\ InitHeap /\ InitQuery
InitExt == InitTxn /\ InitLedger /\ InitFS /\ InitDocker /\ InitMore
cronVars == <<created, runningFlag, ticker, tickers, runs, stops, execs, drains>>
appVars == <<reqs, lib, once, cronTab, cronMu, sd>>
vars == <<cronVars, appVars, extVars>>

\* ---------------------------------------------------------------- helpers
Idx(s) == 1..Len(s)

SetAt(f, j, k, field, v) == [f EXCEPT ![j][k][field] = v]

\* Goroutines that run the same code and hold the same locals are
\* interchangeable, so they are kept as a bag of records.
Put(B, x) == B (+) SetToBag({x})
Move(B, x, y) == (B (-) SetToBag({x})) (+) SetToBag({y})
Count(B, S) == BagCardinality([x \in (BagToSet(B) \cap S) |-> B[x]])

RunPcs == {"cas", "newTicker", "range", "loop", "retErr"}
StopPcs == {"cas", "tickerStop", "done", "panic"}
RunRecs == [pc : RunPcs, tk : 0..(MaxRuns + 1)]
StopRecs == [pc : StopPcs, by : 0..(MaxShutdowns + 1), won : BOOLEAN, tk : 0..(MaxRuns + 1)]

\* ---------------------------------------------------------------- CronJob

\* NewCronJob: runningFlag 0, ticker nil, two fresh unbuffered channels.
NewCronJob(j) ==
    /\ created' = created \cup {j}
    /\ runningFlag' = [runningFlag EXCEPT ![j] = 0]
    /\ ticker' = [ticker EXCEPT ![j] = 0]

\* A caller (or `go cron.Run()`) enters Run.
EnterRun(j) == runs' = [runs EXCEPT ![j] = Put(@, [pc |-> "cas", tk |-> 0])]

\* A caller enters Stop; by is the Shutdown call that makes it (0: none).
EnterStop(j, by) ==
    stops' = [stops EXCEPT ![j] = Put(@, [pc |-> "cas", by |-> by, won |-> FALSE, tk |-> 0])]

\* Run, line 68: atomic.CompareAndSwapInt32(&c.runningFlag, 0, 1), and the
\* return of ErrAlreadyRunning when it fails.
RunCAS_NoGuard(j, r) ==
    /\ BagIn(r, runs[j]) /\ r.pc = "cas"
    /\ runningFlag' = [runningFlag EXCEPT ![j] = 1]
    /\ runs' = [runs EXCEPT ![j] = Move(@, r, [r EXCEPT !.pc = "newTicker"])]
    /\ UNCHANGED <<extVars, created, ticker, tickers, stops, execs, drains, appVars>>

RunCAS(j, r) ==
    /\ BagIn(r, runs[j]) /\ r.pc = "cas"
    /\ IF runningFlag[j] = 0
         THEN /\ runningFlag' = [runningFlag EXCEPT ![j] = 1]
              /\ runs' = [runs EXCEPT ![j] = Move(@, r, [r EXCEPT !.pc = "newTicker"])]
         ELSE /\ runs' = [runs EXCEPT ![j] = Move(@, r, [r EXCEPT !.pc = "retErr"])]
              /\ UNCHANGED runningFlag
    /\ UNCHANGED <<extVars, created, ticker, tickers, stops, execs, drains, appVars>>

\* Run, line 71: c.ticker = time.NewTicker(c.inverval), a plain write.  The
\* new ticker's channel is empty and none of its intervals has elapsed.
RunNewTicker_TickAtOnce(j, r) ==
    /\ BagIn(r, runs[j]) /\ r.pc = "newTicker"
    /\ tickers' = [tickers EXCEPT ![j] = Append(@, [active |-> TRUE, C |-> 1, fired |-> 0])]
    /\ ticker' = [ticker EXCEPT ![j] = Len(tickers[j]) + 1]
    /\ runs' = [runs EXCEPT ![j] = Move(@, r, [r EXCEPT !.pc = "range"])]
    /\ UNCHANGED <<extVars, created, runningFlag, stops, execs, drains, appVars>>

RunNewTicker(j, r) ==
    /\ BagIn(r, runs[j]) /\ r.pc = "newTicker"
    /\ tickers' = [tickers EXCEPT ![j] = Append(@, [active |-> TRUE, C |-> 0, fired |-> 0])]
    /\ ticker' = [ticker EXCEPT ![j] = Len(tickers[j]) + 1]
    /\ runs' = [runs EXCEPT ![j] = Move(@, r, [r EXCEPT !.pc = "range"])]
    /\ UNCHANGED <<extVars, created, runningFlag, stops, execs, drains, appVars>>

\* Run, line 72: the range expression c.ticker.C is evaluated once, a plain
\* read of c.ticker.
RunRange(j, r) ==
    /\ BagIn(r, runs[j]) /\ r.pc = "range"
    /\ runs' = [runs EXCEPT ![j] = Move(@, r, [pc |-> "loop", tk |-> ticker[j]])]
    /\ UNCHANGED <<extVars, created, runningFlag, ticker, tickers, stops, execs, drains, appVars>>

\* The intervals of job j's tickers that have elapsed.
RECURSIVE FiredUpTo(_, _)
FiredUpTo(j, t) == IF t = 0 THEN 0 ELSE FiredUpTo(j, t - 1) + tickers[j][t].fired
Fired(j) == FiredUpTo(j, Len(tickers[j]))

\* The intervals that have elapsed so far, over all tickers.
RECURSIVE TicksUpTo(_)
TicksUpTo(j) == IF j = 0 THEN 0 ELSE TicksUpTo(j - 1) + Fired(j)
Ticks == TicksUpTo(MaxReqs)

\* An interval of an active ticker elapses: the timer makes a non-blocking
\* send on C, so the tick is dropped when C still holds the previous one.
\* n bounds the intervals of a behaviour.
Tick(j, t, n) ==
    /\ t \in Idx(tickers[j]) /\ tickers[j][t].active
    /\ Ticks < n
    /\ tickers' = [tickers EXCEPT ![j][t].C = 1, ![j][t].fired = @ + 1]
    /\ UNCHANGED <<extVars, created, runningFlag, ticker, runs, stops, execs, drains, appVars>>

\* An execution is late when it starts after a Stop() that stopped the
\* ticker its Run ranges over has returned.
StoppedBefore(j, r) ==
    \E s \in BagToSet(stops[j]) : s.pc = "done" /\ s.tk = r.tk

\* Run, lines 72-73: the loop receives a tick and starts an execution
\* goroutine.  C is never closed, so the loop has no exit.
RunTick_AfterExecutions(j, r) ==
    /\ BagIn(r, runs[j]) /\ r.pc = "loop"
    /\ r.tk \in Idx(tickers[j])
    /\ tickers[j][r.tk].C = 1
    /\ \A e \in Idx(execs[j]) : execs[j][e].pc = "done"
    /\ tickers' = SetAt(tickers, j, r.tk, "C", 0)
    /\ execs' = [execs EXCEPT ![j] =
                   Append(@, [pc |-> "exec", msg |-> "none", late |-> StoppedBefore(j, r),
                              res |-> "none", sent |-> "none"])]
    /\ UNCHANGED <<extVars, created, runningFlag, ticker, runs, stops, drains, appVars>>

RunTick(j, r) ==
    /\ BagIn(r, runs[j]) /\ r.pc = "loop"
    /\ r.tk \in Idx(tickers[j])
    /\ tickers[j][r.tk].C = 1
    /\ tickers' = SetAt(tickers, j, r.tk, "C", 0)
    /\ execs' = [execs EXCEPT ![j] =
                   Append(@, [pc |-> "exec", msg |-> "none", late |-> StoppedBefore(j, r),
                              res |-> "none", sent |-> "none"])]
    /\ UNCHANGED <<extVars, created, runningFlag, ticker, runs, stops, drains, appVars>>

\* What Execute(nil) returns: an error, (nil, nil), an empty non-nil slice,
\* or some bytes.
Outcomes == {"err", "nil", "empty", "data"}

\* Run, lines 74-81: Execute(nil) returns and the execution picks its send:
\* the error when err != nil, else the output when b != nil, else nothing.
Execute_DropsEmpty(j, e) ==
    /\ e \in Idx(execs[j]) /\ execs[j][e].pc = "exec"
    /\ \E o \in Outcomes :
         execs' = [execs EXCEPT ![j][e].pc =
                       IF o = "err" THEN "sendErr" ELSE IF o = "data" THEN "sendOut" ELSE "done",
                     ![j][e].msg = IF o = "data" THEN o ELSE "none",
                     ![j][e].res = o]
    /\ UNCHANGED <<extVars, created, runningFlag, ticker, tickers, runs, stops, drains, appVars>>

Execute(j, e) ==
    /\ e \in Idx(execs[j]) /\ execs[j][e].pc = "exec"
    /\ \E o \in Outcomes :
         execs' = [execs EXCEPT ![j][e].pc =
                       IF o = "err" THEN "sendErr" ELSE IF o = "nil" THEN "done" ELSE "sendOut",
                     ![j][e].msg = IF o \in {"err", "nil"} THEN "none" ELSE o,
                     ![j][e].res = o]
    /\ UNCHANGED <<extVars, created, runningFlag, ticker, tickers, runs, stops, drains, appVars>>

\* Run, line 76: c.errorCh <- err completes when the loop over Errors()
\* receives it.
SendErr(j, e) ==
    /\ e \in Idx(execs[j]) /\ execs[j][e].pc = "sendErr"
    /\ drains[j].err
    /\ execs' = [execs EXCEPT ![j][e].pc = "done", ![j][e].sent = "err"]
    /\ UNCHANGED <<extVars, created, runningFlag, ticker, tickers, runs, stops, drains, appVars>>

\* Run, line 80: c.outCh <- b completes when the loop over Output()
\* receives it.
SendOut(j, e) ==
    /\ e \in Idx(execs[j]) /\ execs[j][e].pc = "sendOut"
    /\ drains[j].out
    /\ execs' = [execs EXCEPT ![j][e].pc = "done", ![j][e].msg = "none", ![j][e].sent = "out"]
    /\ UNCHANGED <<extVars, created, runningFlag, ticker, tickers, runs, stops, drains, appVars>>

\* Stop, line 90: atomic.CompareAndSwapInt32(&c.runningFlag, 1, 0).
StopCAS_NoGuard(j, s) ==
    /\ BagIn(s, stops[j]) /\ s.pc = "cas"
    /\ runningFlag' = [runningFlag EXCEPT ![j] = 0]
    /\ stops' = [stops EXCEPT ![j] = Move(@, s, [s EXCEPT !.pc = "tickerStop", !.won = TRUE])]
    /\ UNCHANGED <<extVars, created, ticker, tickers, runs, execs, drains, appVars>>

StopCAS(j, s) ==
    /\ BagIn(s, stops[j]) /\ s.pc = "cas"
    /\ IF runningFlag[j] = 1
         THEN /\ runningFlag' = [runningFlag EXCEPT ![j] = 0]
              /\ stops' = [stops EXCEPT ![j] =
                             Move(@, s, [s EXCEPT !.pc = "tickerStop", !.won = TRUE])]
         ELSE /\ stops' = [stops EXCEPT ![j] = Move(@, s, [s EXCEPT !.pc = "done"])]
              /\ UNCHANGED runningFlag
    /\ UNCHANGED <<extVars, created, ticker, tickers, runs, execs, drains, appVars>>

\* Stop, line 91: c.ticker.Stop(), a plain read of c.ticker; a nil ticker
\* is dereferenced and the call panics.
StopTicker(j, s) ==
    /\ BagIn(s, stops[j]) /\ s.pc = "tickerStop"
    /\ IF ticker[j] = 0
         THEN /\ stops' = [stops EXCEPT ![j] = Move(@, s, [s EXCEPT !.pc = "panic"])]
              /\ UNCHANGED tickers
         ELSE /\ tickers' = SetAt(tickers, j, ticker[j], "active", FALSE)
              /\ stops' = [stops EXCEPT ![j] =
                             Move(@, s, [s EXCEPT !.pc = "done", !.tk = ticker[j]])]
    /\ UNCHANGED <<extVars, created, runningFlag, ticker, runs, execs, drains, appVars>>

\* One step of a goroutine of job j.
CronStep(j, n) ==
    \/ \E r \in RunRecs : RunCAS(j, r)
    \/ \E r \in RunRecs : RunNewTicker(j, r)
    \/ \E r \in RunRecs : RunRange(j, r)
    \/ \E r \in RunRecs : RunTick(j, r)
    \/ \E t \in 1..(MaxRuns + 1) : Tick(j, t, n)
    \/ \E e \in 1..MaxTicks : Execute(j, e)
    \/ \E e \in 1..MaxTicks : SendErr(j, e)
    \/ \E e \in 1..MaxTicks : SendOut(j, e)
    \/ \E s \in StopRecs : StopCAS(j, s)
    \/ \E s \in StopRecs : StopTicker(j, s)

\* ------------------------------------------------- the CronJob on its own
\* One CronJob, constructed with NewCronJob and wired to two drain loops,
\* whose Run() and Stop() are called by concurrent callers in any order.

InitApp ==
    /\ reqs = [r \in JobIds |-> [pc |-> "idle", name |-> "a", cron |-> "", status |-> 0,
                                 put |-> "none", get |-> "none"]]
    /\ lib = {}
    /\ once = "new"
    /\ cronTab = [made |-> FALSE, m |-> <<>>]
    /\ cronMu = <<>>
    /\ sd = [s \in 1..MaxShutdowns |-> [pc |-> "idle", todo |-> {}, cur |-> 0, pre |-> {}]]

InitCron ==
    /\ created = {1}
    /\ runningFlag = [j \in JobIds |-> 0]
    /\ ticker = [j \in JobIds |-> 0]
    /\ tickers = [j \in JobIds |-> <<>>]
    /\ runs = [j \in JobIds |-> EmptyBag]
    /\ stops = [j \in JobIds |-> EmptyBag]
    /\ execs = [j \in JobIds |-> <<>>]
    /\ drains = [j \in JobIds |-> [err |-> j = 1, out |-> j = 1]]
    /\ InitApp
    /\ InitExt

CallRun(j) ==
    /\ j \in created /\ BagCardinality(runs[j]) < MaxRuns
    /\ EnterRun(j)
    /\ UNCHANGED <<extVars, created, runningFlag, ticker, tickers, stops, execs, drains, appVars>>

CallStop(j) ==
    /\ j \in created /\ BagCardinality(stops[j]) < MaxStops
    /\ EnterStop(j, 0)
    /\ UNCHANGED <<extVars, created, runningFlag, ticker, tickers, runs, execs, drains, appVars>>

NextCron ==
    \/ CallRun(1)
    \/ CallStop(1)
    \/ CronStep(1, MaxTicks)

SpecCron == InitCron /\ [][NextCron]_vars

\* ------------------------------------------------------------ Application
ReqIds == 1..MaxReqs
SdIds == 1..MaxShutdowns

\* The Cron field of a posted manifest: absent, unparsable, a positive
\* duration, a zero duration.
CronInputs == {"", "bad", "1s", "0s"}

\* time.ParseDuration on those inputs.
ParseDuration(c) ==
    IF c = "1s" THEN [ok |-> TRUE, d |-> 1]
    ELSE IF c = "0s" THEN [ok |-> TRUE, d |-> 0]
    ELSE [ok |-> FALSE, d |-> 0]

\* PostContract, lines 395-402: interval stays 0 when Cron is empty.
Interval(c) == IF c = "" THEN 0 ELSE ParseDuration(c).d

Finish(r, status) == reqs' = [reqs EXCEPT ![r].pc = "done", ![r].status = status]
Goto(r, pc) == reqs' = [reqs EXCEPT ![r].pc = pc]

\* PostContract, lines 389-409: decode the manifest and parse its schedule
\* (400 on a body that does not decode or a schedule that does not parse),
\* a.Lib.Put (500 when it fails), then startCronJob when the interval is
\* positive.  put and get remember what Lib.Put and Lib.Get returned to
\* the request.
PostContract_PutErrorIgnored(r) ==
    /\ reqs[r].pc = "idle"
    /\ \E decoded \in BOOLEAN, name \in Names, cron \in CronInputs, put \in BOOLEAN :
         LET in == [reqs[r] EXCEPT !.name = name, !.cron = cron] IN
         IF ~decoded
           THEN Finish(r, 400) /\ UNCHANGED lib
           ELSE IF cron # "" /\ ~ParseDuration(cron).ok
                  THEN /\ reqs' = [reqs EXCEPT ![r] = [in EXCEPT !.pc = "done", !.status = 400]]
                       /\ UNCHANGED lib
                  ELSE /\ lib' = IF put THEN lib \cup {name} ELSE lib
                       /\ reqs' = [reqs EXCEPT ![r] =
                                     IF Interval(cron) > 0
                                       THEN [in EXCEPT !.pc = "ensureCronTab",
                                                       !.put = IF put THEN "ok" ELSE "err"]
                                       ELSE [in EXCEPT !.pc = "done", !.status = 200,
                                                       !.put = IF put THEN "ok" ELSE "err"]]
    /\ UNCHANGED <<extVars, cronVars, once, cronTab, cronMu, sd>>

PostContract(r) ==
    /\ reqs[r].pc = "idle"
    /\ \E decoded \in BOOLEAN, name \in Names, cron \in CronInputs, put \in BOOLEAN :
         LET in == [reqs[r] EXCEPT !.name = name, !.cron = cron] IN
         IF ~decoded
           THEN Finish(r, 400) /\ UNCHANGED lib
           ELSE IF cron # "" /\ ~ParseDuration(cron).ok
                  THEN /\ reqs' = [reqs EXCEPT ![r] = [in EXCEPT !.pc = "done", !.status = 400]]
                       /\ UNCHANGED lib
                  ELSE IF ~put
                         THEN /\ reqs' = [reqs EXCEPT ![r] =
                                            [in EXCEPT !.pc = "done", !.status = 500,
                                                       !.put = "err"]]
                              /\ UNCHANGED lib
                         ELSE /\ lib' = lib \cup {name}
                              /\ reqs' = [reqs EXCEPT ![r] =
                                            IF Interval(cron) > 0
                                              THEN [in EXCEPT !.pc = "ensureCronTab", !.put = "ok"]
                                              ELSE [in EXCEPT !.pc = "done", !.status = 200,
                                                              !.put = "ok"]]
    /\ UNCHANGED <<extVars, cronVars, once, cronTab, cronMu, sd>>

\* ensureCronTab, line 444: a.once.Do.  The first caller runs the function,
\* a caller that finds it running waits, a later caller passes.
ensureCronTab(r) ==
    /\ reqs[r].pc = "ensureCronTab"
    /\ once # "running"
    /\ IF once = "new"
         THEN once' = "running" /\ Goto(r, "makeTab")
         ELSE UNCHANGED once /\ Goto(r, "libGet")
    /\ UNCHANGED <<extVars, cronVars, lib, cronTab, cronMu, sd>>

\* ensureCronTab, line 445: a.cronTab = make(map[string]*CronJob), a plain
\* write made inside once.Do, without cronMu.
ensureCronTabMake(r) ==
    /\ reqs[r].pc = "makeTab"
    /\ cronTab' = [made |-> TRUE, m |-> <<>>]
    /\ once' = "done"
    /\ Goto(r, "libGet")
    /\ UNCHANGED <<extVars, cronVars, lib, cronMu, sd>>

\* startCronJob, lines 415-437: a.Lib.Get (500 when it fails), NewCronJob,
\* then the three go statements: the loop over Errors(), the loop over
\* Output(), and Run().
startCronJobGo_NoOutputDrain(r) ==
    /\ reqs[r].pc = "libGet"
    /\ \E ok \in BOOLEAN :
         IF ok /\ reqs[r].name \in lib
           THEN /\ NewCronJob(r)
                /\ drains' = [drains EXCEPT ![r] = [err |-> TRUE, out |-> FALSE]]
                /\ EnterRun(r)
                /\ reqs' = [reqs EXCEPT ![r].pc = "lock", ![r].get = "ok"]
           ELSE /\ reqs' = [reqs EXCEPT ![r].pc = "done", ![r].status = 500, ![r].get = "err"]
                /\ UNCHANGED <<created, runningFlag, ticker, drains, runs>>
    /\ UNCHANGED <<extVars, tickers, stops, execs, lib, once, cronTab, cronMu, sd>>

startCronJobGo(r) ==
    /\ reqs[r].pc = "libGet"
    /\ \E ok \in BOOLEAN :
         IF ok /\ reqs[r].name \in lib
           THEN /\ NewCronJob(r)
                /\ drains' = [drains EXCEPT ![r] = [err |-> TRUE, out |-> TRUE]]
                /\ EnterRun(r)
                /\ reqs' = [reqs EXCEPT ![r].pc = "lock", ![r].get = "ok"]
           ELSE /\ reqs' = [reqs EXCEPT ![r].pc = "done", ![r].status = 500, ![r].get = "err"]
                /\ UNCHANGED <<created, runningFlag, ticker, drains, runs>>
    /\ UNCHANGED <<extVars, tickers, stops, execs, lib, once, cronTab, cronMu, sd>>

\* startCronJob, line 438: a.cronMu.Lock().
startCronJobLock(r) ==
    /\ reqs[r].pc = "lock"
    /\ cronMu = <<>>
    /\ cronMu' = <<"req", r>>
    /\ Goto(r, "insert")
    /\ UNCHANGED <<extVars, cronVars, lib, once, cronTab, sd>>

\* The map m with key n set to job j.
MapSet(m, n, j) == [k \in (DOMAIN m) \cup {n} |-> IF k = n THEN j ELSE m[k]]

\* startCronJob, lines 439-440: a.cronTab[name] = cron, a.cronMu.Unlock();
\* the handler returns.
startCronJobInsert_Clobber(r) ==
    /\ reqs[r].pc = "insert"
    /\ cronTab' = [cronTab EXCEPT !.m = MapSet(<<>>, reqs[r].name, r)]
    /\ cronMu' = <<>>
    /\ Finish(r, 200)
    /\ UNCHANGED <<extVars, cronVars, lib, once, sd>>

startCronJobInsert(r) ==
    /\ reqs[r].pc = "insert"
    /\ cronTab' = [cronTab EXCEPT !.m = MapSet(@, reqs[r].name, r)]
    /\ cronMu' = <<>>
    /\ Finish(r, 200)
    /\ UNCHANGED <<extVars, cronVars, lib, once, sd>>

\* Shutdown, line 320: a.cronMu.Lock().  pre remembers the jobs whose three
\* goroutines had been launched when Shutdown took the lock.
ShutdownLock(s) ==
    /\ sd[s].pc = "idle"
    /\ cronMu = <<>>
    /\ cronMu' = <<"sd", s>>
    /\ sd' = [sd EXCEPT ![s].pc = "range", ![s].pre = created]
    /\ UNCHANGED <<extVars, cronVars, reqs, lib, once, cronTab>>

\* Shutdown, line 322: the range expression a.cronTab is read once; a nil
\* map has no entries.
ShutdownRange(s) ==
    /\ sd[s].pc = "range"
    /\ sd' = [sd EXCEPT ![s].pc = "iter",
                        ![s].todo = IF cronTab.made THEN DOMAIN cronTab.m ELSE {}]
    /\ UNCHANGED <<extVars, cronVars, reqs, lib, once, cronTab, cronMu>>

\* Shutdown, lines 322-323: the next entry, in any order, and the call of
\* its Stop(); after the last entry the loop ends.
ShutdownNext(s) ==
    /\ sd[s].pc = "iter"
    /\ IF sd[s].todo = {}
         THEN /\ sd' = [sd EXCEPT ![s].pc = "unlock"]
              /\ UNCHANGED stops
         ELSE \E n \in sd[s].todo :
                /\ EnterStop(cronTab.m[n], s)
                /\ sd' = [sd EXCEPT ![s].pc = "stopping", ![s].todo = @ \ {n},
                                    ![s].cur = cronTab.m[n]]
    /\ UNCHANGED <<extVars, created, runningFlag, ticker, tickers, runs, execs, drains,
                   reqs, lib, once, cronTab, cronMu>>

\* Shutdown, line 323: cron.Stop() returns, or panics; the deferred Unlock
\* of line 321 then runs while the panic leaves Shutdown.
ShutdownStopReturn_NoDefer(s) ==
    /\ sd[s].pc = "stopping"
    /\ \E st \in BagToSet(stops[sd[s].cur]) :
         /\ st.by = s /\ st.pc \in {"done", "panic"}
         /\ IF st.pc = "done"
              THEN sd' = [sd EXCEPT ![s].pc = "iter", ![s].cur = 0]
              ELSE sd' = [sd EXCEPT ![s].pc = "panicked", ![s].cur = 0]
    /\ UNCHANGED <<extVars, cronVars, reqs, lib, once, cronTab, cronMu>>

ShutdownStopReturn(s) ==
    /\ sd[s].pc = "stopping"
    /\ \E st \in BagToSet(stops[sd[s].cur]) :
         /\ st.by = s /\ st.pc \in {"done", "panic"}
         /\ IF st.pc = "done"
              THEN /\ sd' = [sd EXCEPT ![s].pc = "iter", ![s].cur = 0]
                   /\ UNCHANGED cronMu
              ELSE /\ sd' = [sd EXCEPT ![s].pc = "panicked", ![s].cur = 0]
                   /\ cronMu' = <<>>
    /\ UNCHANGED <<extVars, cronVars, reqs, lib, once, cronTab>>

\* Shutdown, line 321: the deferred a.cronMu.Unlock(); Shutdown returns.
ShutdownUnlock(s) ==
    /\ sd[s].pc = "unlock"
    /\ cronMu' = <<>>
    /\ sd' = [sd EXCEPT ![s].pc = "done"]
    /\ UNCHANGED <<extVars, cronVars, reqs, lib, once, cronTab>>

InitJobs ==
    /\ created = {}
    /\ runningFlag = [j \in JobIds |-> 0]
    /\ ticker = [j \in JobIds |-> 0]
    /\ tickers = [j \in JobIds |-> <<>>]
    /\ runs = [j \in JobIds |-> EmptyBag]
    /\ stops = [j \in JobIds |-> EmptyBag]
    /\ execs = [j \in JobIds |-> <<>>]
    /\ drains = [j \in JobIds |-> [err |-> FALSE, out |-> FALSE]]
    /\ InitApp

Init == InitJobs /\ InitExt

Next ==
    \/ \E r \in ReqIds : PostContract(r)
    \/ \E r \in ReqIds : ensureCronTab(r)
    \/ \E r \in ReqIds : ensureCronTabMake(r)
    \/ \E r \in ReqIds : startCronJobGo(r)
    \/ \E r \in ReqIds : startCronJobLock(r)
    \/ \E r \in ReqIds : startCronJobInsert(r)
    \/ \E s \in SdIds : ShutdownLock(s)
    \/ \E s \in SdIds : ShutdownRange(s)
    \/ \E s \in SdIds : ShutdownNext(s)
    \/ \E s \in SdIds : ShutdownStopReturn(s)
    \/ \E s \in SdIds : ShutdownUnlock(s)
    \/ \E j \in JobIds : CronStep(j, MaxAppTicks)

Spec == Init /\ [][Next]_vars

\* The loops over Errors() and Output() do nothing but receive, and a Go
\* channel serves its blocked senders in order of arrival: a send that a
\* live loop can receive is received.
FairSpec ==
    /\ Spec
    /\ \A j \in JobIds : \A e \in 1..MaxTicks :
         WF_vars(SendErr(j, e)) /\ WF_vars(SendOut(j, e))

\* ------------------------------------------------ Shutdown called again
\* One registration and Shutdown() calls, one more than the application
\* model has: cronMu serializes them, so each call after the first begins
\* after an earlier one has returned.
TwiceIds == 1..(MaxShutdowns + 1)

InitTwice ==
    /\ created = {}
    /\ runningFlag = [j \in JobIds |-> 0]
    /\ ticker = [j \in JobIds |-> 0]
    /\ tickers = [j \in JobIds |-> <<>>]
    /\ runs = [j \in JobIds |-> EmptyBag]
    /\ stops = [j \in JobIds |-> EmptyBag]
    /\ execs = [j \in JobIds |-> <<>>]
    /\ drains = [j \in JobIds |-> [err |-> FALSE, out |-> FALSE]]
    /\ reqs = [r \in JobIds |-> [pc |-> "idle", name |-> "a", cron |-> "", status |-> 0,
                                 put |-> "none", get |-> "none"]]
    /\ lib = {}
    /\ once = "new"
    /\ cronTab = [made |-> FALSE, m |-> <<>>]
    /\ cronMu = <<>>
    /\ sd = [s \in TwiceIds |-> [pc |-> "idle", todo |-> {}, cur |-> 0, pre |-> {}]]
    /\ InitExt

NextTwice ==
    \/ PostContract(1)
    \/ ensureCronTab(1)
    \/ ensureCronTabMake(1)
    \/ startCronJobGo(1)
    \/ startCronJobLock(1)
    \/ startCronJobInsert(1)
    \/ \E s \in TwiceIds : ShutdownLock(s)
    \/ \E s \in TwiceIds : ShutdownRange(s)
    \/ \E s \in TwiceIds : ShutdownNext(s)
    \/ \E s \in TwiceIds : ShutdownStopReturn(s)
    \/ \E s \in TwiceIds : ShutdownUnlock(s)
    \/ CronStep(1, MaxAppTicks)

SpecTwice == InitTwice /\ [][NextTwice]_vars

\* ----------------------------------------------------- claims on a CronJob
\* Run() calls of job j that are past the compare-and-swap guard, Run()
\* calls that returned ErrAlreadyRunning, and Stop() calls past their guard.
Started(j) == Count(runs[j], {r \in RunRecs : r.pc \in {"newTicker", "range", "loop"}})
Refused(j) == Count(runs[j], {r \in RunRecs : r.pc = "retErr"})
StopsWon(j) == Count(stops[j], {s \in StopRecs : s.won})
ActiveTickers(j) == {t \in Idx(tickers[j]) : tickers[j][t].active}

\* C1: while no Stop() has been called on the job, of the Run() calls that
\* have passed the guard exactly one is in the tick loop and every other
\* returned ErrAlreadyRunning; at most one ticker was created, so at most
\* one is active.
C1_OneRunWins ==
    \A j \in created :
        BagCardinality(stops[j]) = 0 =>
            /\ (Started(j) + Refused(j) >= 1 => Started(j) = 1)
            /\ Len(tickers[j]) <= 1
            /\ Cardinality(ActiveTickers(j)) <= 1

\* Two concurrent Run() calls, no Stop(): one ranges over its ticker and
\* has started an execution, the other returned ErrAlreadyRunning.
C1_Witness ==
    /\ BagCardinality(stops[1]) = 0
    /\ BagIn([pc |-> "loop", tk |-> 1], runs[1])
    /\ BagIn([pc |-> "retErr", tk |-> 0], runs[1])
    /\ Len(execs[1]) >= 1

\* C2: concurrent Run() and Stop() race safely: Stop() never dereferences an
\* unset ticker, and when the flag is 0 with every Stop() returned and every
\* Run() past its ticker assignment, no ticker of the job is active.
C2_RunStopRaceSafe ==
    \A j \in created :
        /\ Count(stops[j], {s \in StopRecs : s.pc = "panic"}) = 0
        /\ (/\ runningFlag[j] = 0
            /\ Count(stops[j], {s \in StopRecs : s.pc \in {"cas", "tickerStop"}}) = 0
            /\ Count(runs[j], {r \in RunRecs : r.pc \in {"cas", "newTicker", "range"}}) = 0)
           => ActiveTickers(j) = {}

\* C3: no execution is started by a Run after a Stop() that stopped that
\* Run's ticker has returned.
C3_NoExecutionAfterStop ==
    \A j \in created : \A e \in Idx(execs[j]) : ~execs[j][e].late

\* C4: a stopped instance is terminal: once a Stop() that found the job
\* Running has returned, no Run() on the instance passes the guard again,
\* so no new ticker is started.
C4_Terminal ==
    [][\A j \in created :
          (\E s \in BagToSet(stops[j]) : s.pc = "done" /\ s.won)
              => Started(j)' <= Started(j)]_vars

\* C4 as amended: starts and stops alternate.  The Run() calls past the
\* guard number runningFlag plus the Stop() calls past theirs, and every
\* ticker was created by one of those Run() calls.
C4_StartsFollowStops ==
    \A j \in created :
        /\ Started(j) = runningFlag[j] + StopsWon(j)
        /\ Len(tickers[j]) <= Started(j)

\* A stopped instance restarted in place: a Stop() stopped the first
\* ticker and returned, and a later Run() ranges over a second, active one.
C4_Witness ==
    /\ \E s \in BagToSet(stops[1]) : s.pc = "done" /\ s.tk = 1
    /\ Len(tickers[1]) = 2 /\ ~tickers[1][1].active /\ tickers[1][2].active
    /\ ticker[1] = 2 /\ runningFlag[1] = 1
    /\ BagIn([pc |-> "loop", tk |-> 2], runs[1])

\* C17: an execution sends at most one message: the error iff Execute
\* failed, the output iff Execute succeeded with a non-empty output, and
\* nothing when Execute succeeded with a nil or a zero-length output.
C17_OutputOnlyWhenNonEmpty ==
    \A j \in created : \A e \in Idx(execs[j]) :
        LET x == execs[j][e] IN
        /\ x.pc = "sendErr" => x.res = "err"
        /\ x.pc = "sendOut" => x.res = "data"
        /\ x.pc = "done" => /\ x.sent = "err" <=> x.res = "err"
                            /\ x.sent = "out" <=> x.res = "data"
                            /\ x.res \in {"nil", "empty"} => x.sent = "none"

\* C17, as the code has it: an execution sends at most one message: the
\* error iff Execute failed, the output iff Execute succeeded with an output
\* that is not nil, a zero-length one included, and nothing when Execute
\* succeeded with a nil output.
C17_OneMessagePerExecution ==
    \A j \in created : \A e \in Idx(execs[j]) :
        LET x == execs[j][e] IN
        /\ x.pc = "exec" => x.res = "none" /\ x.sent = "none"
        /\ x.pc = "sendErr" => x.res = "err" /\ x.sent = "none"
        /\ x.pc = "sendOut" => x.res \in {"empty", "data"} /\ x.msg = x.res /\ x.sent = "none"
        /\ x.pc = "done" => /\ x.sent = "err" <=> x.res = "err"
                            /\ x.sent = "out" <=> x.res \in {"empty", "data"}
                            /\ x.sent = "none" <=> x.res = "nil"

\* A zero-length output was sent on the output channel, an error on the
\* error channel.
C17_Witness ==
    /\ Len(execs[1]) = 2
    /\ execs[1][1] = [pc |-> "done", msg |-> "none", late |-> FALSE, res |-> "empty", sent |-> "out"]
    /\ execs[1][2].pc = "done" /\ execs[1][2].res = "err" /\ execs[1][2].sent = "err"

\* Job j is running on its first ticker and no Stop() got past the guard.
RunningOnce(j) == Len(tickers[j]) = 1 /\ tickers[j][1].active /\ StopsWon(j) = 0

C25_TicksNotSerialized ==
    \A j \in created : \A r \in BagToSet(runs[j]) :
        (r.pc = "loop" /\ r.tk \in Idx(tickers[j]) /\ tickers[j][r.tk].C = 1)
            => ENABLED RunTick(j, r)

\* Two executions overlapped and the second one ended first: the first is
\* still inside Execute and the second has sent its output.
C25_Witness ==
    /\ Len(execs[1]) = 2
    /\ execs[1][1].pc = "exec"
    /\ execs[1][2].pc = "done" /\ execs[1][2].sent = "out"

\* The Go scheduler runs every goroutine that can take a step: a call of
\* Run() or Stop() that is not blocked takes its next step.
FairSpecCron ==
    /\ SpecCron
    /\ \A r \in RunRecs :
         /\ WF_vars(RunCAS(1, r)) /\ WF_vars(RunNewTicker(1, r))
         /\ WF_vars(RunRange(1, r)) /\ WF_vars(RunTick(1, r))
    /\ \A s \in StopRecs : WF_vars(StopCAS(1, s)) /\ WF_vars(StopTicker(1, s))

\* The Run() call of job j is in its loop over the channel of ticker t, and
\* a Stop() that passed its guard has stopped that ticker and returned.
InLoop(j, t) == \E r \in BagToSet(runs[j]) : r.pc = "loop" /\ r.tk = t
StopReturned(j, t) == \E s \in BagToSet(stops[j]) : s.pc = "done" /\ s.won /\ s.tk = t

\* C29: after a Stop() on a running job has stopped the ticker and returned,
\* the Run() call that ranges over that ticker eventually leaves its loop.
C29_RunReturnsAfterStop ==
    \A t \in 1..(MaxRuns + 1) :
        (InLoop(1, t) /\ StopReturned(1, t)) ~> ~InLoop(1, t)

\* The Stop() calls on job j that have not made their compare-and-swap, and
\* those that have returned.
StopsAtCAS(j) == Count(stops[j], {s \in StopRecs : s.pc = "cas"})
StopsDone(j) == Count(stops[j], {s \in StopRecs : s.pc = "done"})

C30_WitnessNeverStarted ==
    /\ StopsDone(1) = 1 /\ StopsWon(1) = 0
    /\ Count(runs[1], {r \in RunRecs : r.pc = "cas"}) = 1 /\ ticker[1] = 0

\* ------------------------------------------------ claims on the Application
Sending(j, e) == e \in Idx(execs[j]) /\ execs[j][e].pc \in {"sendErr", "sendOut"}
Sent(j, e) == e \in Idx(execs[j]) /\ execs[j][e].pc = "done"

\* C5: with the two drain loops that startCronJob starts before Run, every
\* execution that has returned from Execute and is sending its error or
\* its output eventually completes the send and ends, before or after
\* Stop().
C5_SendsComplete ==
    \A j \in JobIds : \A e \in 1..MaxTicks : Sending(j, e) ~> Sent(j, e)

\* An execution started by a stale tick, after Shutdown has stopped its
\* job, is sending while both drain loops of the job are alive.
C5_Witness ==
    \E j \in created :
        /\ drains[j].err /\ drains[j].out
        /\ \E s \in BagToSet(stops[j]) : s.pc = "done" /\ s.won /\ s.by > 0
        /\ \E e \in Idx(execs[j]) : execs[j][e].pc = "sendOut" /\ execs[j][e].late

\* The goroutines made for job j have all ended: Run() has returned, both
\* drain loops have left their range loop, every execution is over.
JobEnded(j) ==
    /\ Count(runs[j], {r \in RunRecs : r.pc # "retErr"}) = 0
    /\ ~drains[j].err /\ ~drains[j].out
    /\ \A e \in Idx(execs[j]) : execs[j][e].pc = "done"

\* C6: no goroutine of a scheduled job is leaked.  Once Shutdown() has
\* returned, every job whose goroutines have not all ended can still make
\* progress: one of its goroutines can take a step, or one of its timers
\* is still running.
C6_NoGoroutineLeak ==
    (\E s \in SdIds : sd[s].pc = "done") =>
        \A j \in created :
            \/ JobEnded(j)
            \/ ENABLED CronStep(j, MaxAppTicks)
            \/ ActiveTickers(j) # {}

\* C7: after Shutdown() has returned, no job whose goroutines had been
\* launched when Shutdown took cronMu has a running ticker.
C7_NoTickAfterShutdown ==
    \A s \in SdIds :
        sd[s].pc = "done" => \A j \in sd[s].pre : ActiveTickers(j) = {}

\* C8: for every unit name, at most one job registered under it is ticking.
C8_OneJobPerName ==
    \A n \in Names :
        Cardinality({j \in created : reqs[j].name = n /\ ActiveTickers(j) # {}}) <= 1

\* The requests that went through startCronJob to its end.
Registered == {r \in ReqIds : reqs[r].pc = "done" /\ r \in created}

\* C9: registrations of distinct names, however interleaved, leave the job
\* table with exactly one entry per registered name, mapping the name to
\* the CronJob made for it.
C9_DistinctNamesAllInserted ==
    (\A r1, r2 \in Registered : r1 # r2 => reqs[r1].name # reqs[r2].name)
        => /\ DOMAIN cronTab.m = {reqs[r].name : r \in Registered}
           /\ \A r \in Registered : cronTab.m[reqs[r].name] = r

\* Two registrations of two names are over and the table has two entries.
C9_Witness ==
    /\ Registered = {1, 2}
    /\ reqs[1].name # reqs[2].name
    /\ Cardinality(DOMAIN cronTab.m) = 2

\* The jobs that the job table holds.
Recorded == {cronTab.m[n] : n \in DOMAIN cronTab.m}

\* C26: a request has a CronJob created and started (its two drain loops
\* and its Run()) if and only if its schedule parsed to a positive
\* interval, its Lib.Put succeeded and its Lib.Get succeeded, and when the
\* request is over the job table has an entry under its name, its job
\* unless a later request of the same name has put its own; the job of no
\* other request is created, started or recorded.  A request refused with
\* 400 has stored nothing, and no step of PostContract before startCronJob
\* touches the job table.
C26_JobIffScheduledAndStored ==
    /\ [](\A r \in ReqIds :
            LET q == reqs[r] IN
            /\ r \in created <=> (Interval(q.cron) > 0 /\ q.put = "ok" /\ q.get = "ok")
            /\ r \in created =>
                   /\ drains[r].err /\ drains[r].out /\ BagCardinality(runs[r]) = 1
                   /\ q.pc = "done" =>
                          /\ q.status = 200
                          /\ q.name \in DOMAIN cronTab.m
                          /\ \/ cronTab.m[q.name] = r
                             \/ \E r2 \in created \ {r} : reqs[r2].name = q.name
            /\ r \notin created =>
                   /\ ~drains[r].err /\ ~drains[r].out /\ runs[r] = EmptyBag
                   /\ r \notin Recorded
            /\ (q.pc = "done" /\ q.status = 400) => q.put = "none" /\ q.get = "none"
            /\ (q.pc = "done" /\ q.put = "err") => q.status = 500 /\ q.get = "none"
            /\ (q.pc = "done" /\ q.get = "err") => q.status = 500)
    /\ [][\A r \in ReqIds :
             reqs[r].pc = "idle" /\ reqs'[r].pc # "idle" =>
                 /\ cronTab' = cronTab /\ created' = created /\ runs' = runs /\ drains' = drains
                 /\ reqs'[r].put # "ok" => lib' = lib]_vars

\* A request has its job recorded, and a second one, whose manifest was
\* stored, was refused because its Lib.Get failed.
C26_Witness ==
    /\ reqs[1].pc = "done" /\ 1 \in created /\ cronTab.m = MapSet(<<>>, reqs[1].name, 1)
    /\ reqs[2].pc = "done" /\ reqs[2].put = "ok" /\ reqs[2].get = "err" /\ 2 \notin created

\* The goroutines whose next step writes, or reads, a.cronTab.
TabWriters == {<<"req", r>> : r \in {r \in ReqIds : reqs[r].pc \in {"makeTab", "insert"}}}
TabReaders == {<<"sd", s>> : s \in {s \in SdIds : sd[s].pc = "range"}}

\* C10: the job table is never written by one goroutine while another is
\* reading or writing it: two goroutines are never both at an access of
\* a.cronTab of which one is a write.
C10_NoConcurrentTableAccess ==
    \A w \in TabWriters : \A g \in TabWriters \cup TabReaders : g = w


\* The Go scheduler runs every goroutine that can take a step, and
\* sync.Mutex hands the lock to a goroutine that waits in Lock(): a
\* Shutdown() call and the Stop() calls it makes go on, and so does a
\* handler that is at or past a.cronMu.Lock().  Nothing is assumed of the
\* executions, which may hang in Execute or stay blocked on a send, nor of
\* the timers.
ShutdownStep(s) ==
    \/ ShutdownLock(s) \/ ShutdownRange(s) \/ ShutdownNext(s)
    \/ ShutdownStopReturn(s) \/ ShutdownUnlock(s)
    \/ \E j \in JobIds : \E st \in {x \in StopRecs : x.by = s} :
         StopCAS(j, st) \/ StopTicker(j, st)

FairSpecShutdown ==
    /\ Spec
    /\ \A s \in SdIds : WF_vars(ShutdownStep(s))
    /\ \A r \in ReqIds : WF_vars(startCronJobLock(r) \/ startCronJobInsert(r))

\* Shutdown() call s has left the function, by its return or by a panic.
ShutdownOver(s) == sd[s].pc \in {"done", "panicked"}

\* C31: every Shutdown() call ends, and when it has ended it does not hold
\* cronMu; a handler that waits for cronMu in startCronJob gets it and
\* ends.
C31_ShutdownTerminates ==
    /\ \A s \in SdIds : <>ShutdownOver(s)
    /\ [](\A s \in SdIds : ShutdownOver(s) => cronMu # <<"sd", s>>)
    /\ \A r \in ReqIds : (reqs[r].pc = "lock") ~> (reqs[r].pc = "done")

\* Shutdown() has returned with cronMu free while an execution of a job it
\* stopped is still in Execute or blocked on its send and a registration
\* is in flight.
C31_Witness ==
    /\ \E s \in SdIds : sd[s].pc = "done" /\ cronMu = <<>>
    /\ \E j \in created :
         /\ \E st \in BagToSet(stops[j]) : st.pc = "done" /\ st.won /\ st.by > 0
         /\ \E e \in Idx(execs[j]) : execs[j][e].pc \in {"exec", "sendErr", "sendOut"}
    /\ \E r \in ReqIds : reqs[r].pc \in {"ensureCronTab", "makeTab", "libGet", "lock"}

\* Shutdown() has returned on an application whose job table was never
\* created.
C31_WitnessNoTable ==
    /\ \E s \in SdIds : sd[s].pc = "done" /\ cronMu = <<>>
    /\ ~cronTab.made /\ once = "new"

\* Shutdown() has left by the panic of a Stop() and cronMu is free.
C31_WitnessPanic ==
    \E s \in SdIds : sd[s].pc = "panicked" /\ cronMu = <<>>

\* -------------------------------------------------------- PostTransaction
MaxTxns == 2        \* PostTransaction requests
MaxFaultyTxns == 1  \* PostTransaction requests on a Heap whose Put may fail
MaxQueriedTxns == 1 \* PostTransaction requests on the Heap that GetSCHeap reads

\* Application.Bucket.
Bucket == "bucket"

\* The txn_type of a request, the name of a contract: a name that differs
\* from Application.Bucket and one that is the same string.
TxnTypes == {"a", Bucket}

\* The output of a contract is a byte string.  What the handler looks at is
\* whether it is the JSON text of an object and, if so, its fields in the
\* order of the text: a name and a value that is a number, a string or a
\* boolean.
Keys == {"a", "b"}
JSONValues ==
    {[kind |-> "num", v |-> 1], [kind |-> "num", v |-> 2],
     [kind |-> "str", v |-> 0], [kind |-> "bool", v |-> 1]}
Fields == [k : Keys, v : JSONValues]
Objects == {<<>>} \cup {<<f>> : f \in Fields} \cup {<<f, g>> : f, g \in Fields}
NoRaw == [json |-> FALSE, fields |-> <<>>]
Raws == {[json |-> TRUE, fields |-> o] : o \in Objects} \cup {NoRaw}

\* json.Unmarshal(content, &output) with output a map[string]interface{}:
\* an error for bytes that are not the text of an object, else the map of
\* the names, a repeated name keeping its last value; a number becomes a
\* float64.
LastOf(fs, k) ==
    fs[CHOOSE i \in Idx(fs) : fs[i].k = k /\ \A j \in Idx(fs) : fs[j].k = k => j <= i].v
Unmarshal(raw) ==
    IF raw.json
      THEN [ok |-> TRUE,
            m |-> [k \in {raw.fields[i].k : i \in Idx(raw.fields)} |-> LastOf(raw.fields, k)]]
      ELSE [ok |-> FALSE, m |-> <<>>]

RECURSIVE Log2(_)
Log2(n) == IF n < 2 THEN 0 ELSE 1 + Log2(n \div 2)
RECURSIVE Pow2(_)
Pow2(e) == IF e = 0 THEN 1 ELSE 2 * Pow2(e - 1)

\* The eight bytes, big endian, of math.Float64bits of a whole number below
\* 16: sign 0, the exponent biased by 1023 in the next 11 bits, then the
\* fraction, of which only the first four bits can be set.
Float64Bytes(n) ==
    IF n = 0 THEN <<0, 0, 0, 0, 0, 0, 0, 0>>
    ELSE LET e == Log2(n)
             b == 1023 + e
             frac == (n - Pow2(e)) * Pow2(4 - e)
         IN  <<b \div 16, (b % 16) * 16 + frac, 0, 0, 0, 0, 0, 0>>

\* binary.Write(&buf, binary.BigEndian, v) of a value of the map: a float64
\* and a bool have a fixed size and are written, a string is refused.
BinaryWrite_NumbersRefused(v) ==
    IF v.kind = "bool" THEN [ok |-> TRUE, bytes |-> <<v.v>>]
    ELSE [ok |-> FALSE, bytes |-> <<>>]

BinaryWrite(v) ==
    CASE v.kind = "num" -> [ok |-> TRUE, bytes |-> Float64Bytes(v.v)]
      [] v.kind = "bool" -> [ok |-> TRUE, bytes |-> <<v.v>>]
      [] OTHER -> [ok |-> FALSE, bytes |-> <<>>]

\* The orders in which `for k, v := range output` can visit the names.
Orders(D) == {o \in [1..Cardinality(D) -> D] : \A i, j \in 1..Cardinality(D) : o[i] = o[j] => i = j}

\* Lines 372-377: the calls of a.Heap.Put made by the loop over the map,
\* visited in the given order.  fails holds the keys for which Heap.Put
\* returns an error; the loop does not look at what Put returns.
RECURSIVE PutCalls_StopAtFailure(_, _, _)
PutCalls_StopAtFailure(m, order, fails) ==
    IF order = <<>> THEN <<>>
    ELSE LET k == Head(order)
             w == BinaryWrite(m[k])
         IN  IF ~w.ok THEN <<>>
             ELSE <<[bucket |-> Bucket, key |-> k, value |-> w.bytes, err |-> k \in fails]>>
                      \o (IF k \in fails THEN <<>> ELSE PutCalls_StopAtFailure(m, Tail(order), fails))

RECURSIVE PutCalls(_, _, _)
PutCalls(m, order, fails) ==
    IF order = <<>> THEN <<>>
    ELSE LET k == Head(order)
             w == BinaryWrite(m[k])
         IN  (IF w.ok
                THEN <<[bucket |-> Bucket, key |-> k, value |-> w.bytes, err |-> k \in fails]>>
                ELSE <<>>)
                 \o PutCalls(m, Tail(order), fails)

\* The keys of the map whose value binary.Write encodes.
Encodable(m) == {k \in DOMAIN m : BinaryWrite(m[k]).ok}

GetOutcomes == {"ok", "notexist", "err"}
ExecOutcomes == {[err |-> TRUE, raw |-> NoRaw]} \cup {[err |-> FALSE, raw |-> r] : r \in Raws}
NoExec == [err |-> FALSE, raw |-> NoRaw]

Refuse(status, get, executed, out) ==
    [status |-> status, get |-> get, executed |-> executed, out |-> out,
     puts |-> <<>>, content |-> <<>>]

\* The handler of lines 349-382 as a function of what its request and its
\* collaborators give it: the status it answers, whether Execute was
\* called, the Heap.Put calls and the content appended (none or one).
HandleTxn_NoErrorChecks(decoded, get, out, order, fails) ==
    [status |-> 200, get |-> get, executed |-> TRUE, out |-> out,
     puts |-> IF Unmarshal(out.raw).ok THEN PutCalls(Unmarshal(out.raw).m, order, fails) ELSE <<>>,
     content |-> <<out.raw>>]

HandleTxn(decoded, get, out, order, fails) ==
    IF ~decoded THEN Refuse(400, "none", FALSE, NoExec)
    ELSE IF get = "notexist" THEN Refuse(404, get, FALSE, NoExec)
    ELSE IF get = "err" THEN Refuse(500, get, FALSE, NoExec)
    ELSE IF out.err THEN Refuse(500, get, TRUE, out)
    ELSE [status |-> 200, get |-> get, executed |-> TRUE, out |-> out,
          puts |-> IF Unmarshal(out.raw).ok THEN PutCalls(Unmarshal(out.raw).m, order, fails) ELSE <<>>,
          content |-> <<out.raw>>]

\* NewTransaction: a Transaction with a fresh ID (uuid.New) and the content.
NewTransaction(content) == [ID |-> Len(ledger) + 1, Content |-> content]

\* One PostTransaction request, from the decoding of its body to its
\* response.  The outcome of Lib.Get is drawn when the body decodes, that of
\* Execute when Lib.Get gives a contract, that of each Heap.Put when it is
\* called.  The Transaction is answered as JSON, in which Content is left
\* out (`json:"-"`).  heap is "sound" for an Application whose Heap.Put
\* always succeeds and "any" for one whose Heap.Put may return an error.
\* The handler gives req.Type to Lib.Get and to nothing else, so the name
\* is drawn only for "queried", the sound heap that GetSCHeap reads.
PostTransaction(heap) ==
    /\ Len(txns) < (CASE heap = "any" -> MaxFaultyTxns
                       [] heap = "queried" -> MaxQueriedTxns
                       [] OTHER -> MaxTxns)
    /\ \E decoded \in BOOLEAN :
       \E type \in (IF decoded /\ heap = "queried" THEN TxnTypes ELSE {"a"}) :
       \E get \in (IF decoded THEN GetOutcomes ELSE {"ok"}) :
       \E out \in (IF decoded /\ get = "ok" THEN ExecOutcomes ELSE {NoExec}) :
         \E order \in Orders(DOMAIN Unmarshal(out.raw).m) :
         \E fails \in (IF heap = "any" THEN SUBSET Encodable(Unmarshal(out.raw).m) ELSE {{}}) :
           LET h == HandleTxn(decoded, get, out, order, fails)
               ts == [i \in Idx(h.content) |-> NewTransaction(h.content[i])]
           IN  /\ heapPuts' = heapPuts \o h.puts
               /\ ledger' = ledger \o ts
               /\ txns' = Append(txns,
                      [status |-> h.status, get |-> h.get, executed |-> h.executed,
                       out |-> h.out, type |-> type,
                       h0 |-> Len(heapPuts), h1 |-> Len(heapPuts) + Len(h.puts),
                       l0 |-> Len(ledger), l1 |-> Len(ledger) + Len(ts),
                       body |-> [i \in Idx(ts) |-> [ID |-> ts[i].ID]]])
    /\ UNCHANGED <<cronVars, appVars, ledVars, fsVars, dockerVars, moreVars>>

NextTxn == PostTransaction("sound")

SpecTxn == Init /\ [][NextTxn]_vars

NextTxnAnyHeap == PostTransaction("any")

SpecTxnAnyHeap == Init /\ [][NextTxnAnyHeap]_vars

\* ------------------------------------------------ claims on PostTransaction
\* The output is the text of an object whose fields are all numbers, under
\* names that differ.
NumericObject(raw) ==
    /\ raw.json
    /\ \A i \in Idx(raw.fields) : raw.fields[i].v.kind = "num"
    /\ \A i, j \in Idx(raw.fields) : raw.fields[i].k = raw.fields[j].k => i = j

\* The bucket, key and value of a call of Heap.Put.
PutArgs(c) == [bucket |-> c.bucket, key |-> c.key, value |-> c.value]

\* C11: a request whose contract succeeds with an object of n numeric fields
\* makes exactly n Heap.Put calls, one per field, under Application.Bucket
\* with the field's name as key and the big-endian float64 of its value, and
\* appends exactly one Transaction whose Content is the raw output; the
\* response is that Transaction.
C11_NumericFieldsStored ==
    \A i \in Idx(txns) :
        LET t == txns[i] IN
        (t.executed /\ ~t.out.err /\ NumericObject(t.out.raw)) =>
            /\ t.status = 200
            /\ t.h1 - t.h0 = Len(t.out.raw.fields)
            /\ {PutArgs(heapPuts[h]) : h \in (t.h0 + 1)..t.h1} =
                   {[bucket |-> Bucket, key |-> t.out.raw.fields[f].k,
                     value |-> Float64Bytes(t.out.raw.fields[f].v.v)] :
                        f \in Idx(t.out.raw.fields)}
            /\ t.l1 = t.l0 + 1
            /\ Len(ledger) >= t.l1
            /\ ledger[t.l1].Content = t.out.raw
            /\ t.body = <<[ID |-> ledger[t.l1].ID]>>

\* The second request answered {"a": 1, "b": 2}: its two values were put as
\* 3FF0000000000000 and 4000000000000000.
C11_Witness ==
    /\ Len(txns) = 2 /\ Len(ledger) = 2
    /\ txns[2].out.raw.fields = <<[k |-> "a", v |-> [kind |-> "num", v |-> 1]],
                                  [k |-> "b", v |-> [kind |-> "num", v |-> 2]]>>
    /\ txns[2].h1 = txns[2].h0 + 2
    /\ \E h \in Idx(heapPuts) :
           PutArgs(heapPuts[h]) = [bucket |-> Bucket, key |-> "a", value |-> <<63, 240, 0, 0, 0, 0, 0, 0>>]
    /\ \E h \in Idx(heapPuts) :
           PutArgs(heapPuts[h]) = [bucket |-> Bucket, key |-> "b", value |-> <<64, 0, 0, 0, 0, 0, 0, 0>>]

\* C12: a request whose contract's Execute returns an error is answered with
\* a failure and makes no Heap.Put call and no Append.
C12_ExecuteErrorChangesNothing ==
    \A i \in Idx(txns) :
        LET t == txns[i] IN
        (t.executed /\ t.out.err) =>
            /\ t.status = 500
            /\ t.h1 = t.h0 /\ t.l1 = t.l0
            /\ t.body = <<>>

\* A failed Execute after a request that stored something.
C12_Witness ==
    /\ Len(txns) = 2 /\ txns[2].executed /\ txns[2].out.err
    /\ Len(ledger) = 1 /\ Len(heapPuts) = 2

C22_WitnessNoObject ==
    /\ Len(txns) = 1 /\ txns[1].executed /\ ~txns[1].out.err /\ ~txns[1].out.raw.json
    /\ Len(ledger) = 1 /\ heapPuts = <<>>

C22_WitnessRefused ==
    /\ Len(txns) = 1 /\ Len(ledger) = 1 /\ Len(heapPuts) = 1
    /\ \E k \in DOMAIN Unmarshal(txns[1].out.raw).m : Unmarshal(txns[1].out.raw).m[k].kind = "str"


\* -------------------------------------------------------------- MemLedger
MaxAppends == 4     \* Transactions appended to a ledger

TxnIds == {"x", "y"}
Contents == {NoRaw, [json |-> TRUE, fields |-> <<>>]}

\* ledger.go, on container/list: the list is the sequence `ledger`, nil is
\* the empty sequence and a Transaction t is <<t>>.
MemHead == IF Len(ledger) = 0 THEN <<>> ELSE <<ledger[1]>>

RECURSIVE MemFindFrom(_, _)
MemFindFrom(curr, id) ==
    IF curr > Len(ledger) THEN [t |-> <<>>, ok |-> FALSE]
    ELSE IF ledger[curr].ID = id THEN [t |-> <<ledger[curr]>>, ok |-> TRUE]
    ELSE MemFindFrom(curr + 1, id)
MemFind(id) == MemFindFrom(1, id)

MemAppend(t) == ledger' = Append(ledger, t)

\* The linked list: Transactions are records at addresses; their Prev and
\* Next hold addresses, 0 for nil.
LLHead == head

\* Find's loop from curr; fuel ends a walk that never reaches nil.
RECURSIVE LLFindFrom(_, _, _)
LLFindFrom(curr, id, fuel) ==
    IF curr = 0 THEN [t |-> 0, ok |-> FALSE, hang |-> FALSE]
    ELSE IF nodes[curr].ID = id THEN [t |-> curr, ok |-> TRUE, hang |-> FALSE]
    ELSE IF fuel = 0 THEN [t |-> 0, ok |-> FALSE, hang |-> TRUE]
    ELSE LLFindFrom(nodes[curr].Next, id, fuel - 1)
LLFind(id) == LLFindFrom(head, id, Len(nodes))

\* Append of a Transaction made by NewTransaction (Prev and Next nil), put
\* at the next free address.
LLAppend_NoLink(id, c) ==
    /\ head' = IF head = 0 THEN Len(nodes) + 1 ELSE head
    /\ nodes' = Append(nodes, [ID |-> id, Content |-> c, Prev |-> tail, Next |-> 0])
    /\ tail' = Len(nodes) + 1

LLAppend(id, c) ==
    LET a == Len(nodes) + 1
        fresh == Append(nodes, [ID |-> id, Content |-> c, Prev |-> 0, Next |-> 0])
    IN  /\ head' = IF head = 0 THEN a ELSE head
        /\ nodes' = IF tail # 0
                      THEN [fresh EXCEPT ![a].Prev = tail, ![tail].Next = a]
                      ELSE fresh
        /\ tail' = a

\* A Transaction is appended to a ledger of either kind.
LedgerAppend(id, c) ==
    /\ Len(nodes) < MaxAppends
    /\ MemAppend([ID |-> id, Content |-> c])
    /\ LLAppend(id, c)
    /\ expect' = Append(expect, Len(nodes) + 1)
    /\ last' = [NoCall EXCEPT !.op = "append", !.id = id, !.pre = expect]
    /\ UNCHANGED <<cronVars, appVars, txns, heapPuts, fsVars, dockerVars, moreVars>>

\* Pop, lines 33-41.
LLPop ==
    /\ last' = [NoCall EXCEPT !.op = "pop", !.ret = tail, !.ok = (tail # 0), !.pre = expect]
    /\ expect' = IF expect = <<>> THEN expect ELSE SubSeq(expect, 1, Len(expect) - 1)
    /\ IF tail = 0
         THEN UNCHANGED <<nodes, tail>>
         ELSE /\ tail' = nodes[tail].Prev
              /\ nodes' = [nodes EXCEPT ![tail].Prev = 0]
    /\ UNCHANGED head
    /\ UNCHANGED <<cronVars, appVars, txnVars, fsVars, dockerVars, moreVars>>

\* expect without its first address whose Transaction has the ID.
RECURSIVE Without(_, _)
Without(s, id) ==
    IF s = <<>> THEN <<>>
    ELSE IF nodes[Head(s)].ID = id THEN Tail(s)
    ELSE <<Head(s)>> \o Without(Tail(s), id)

\* Remove, lines 43-55.  Line 47 dereferences curr.Prev and line 48
\* curr.Next: a nil one is a run-time panic that leaves the assignments
\* made before it.
LLRemove(id) ==
    LET f == LLFind(id)
        curr == f.t
        l47 == [nodes EXCEPT ![nodes[curr].Prev].Next = nodes[curr].Next]
        l48 == [l47 EXCEPT ![nodes[curr].Next].Prev = nodes[curr].Prev]
        l49 == [l48 EXCEPT ![curr].Next = 0, ![curr].Prev = 0]
        call == [NoCall EXCEPT !.op = "remove", !.id = id, !.pre = expect]
    IN  /\ ~f.hang
        /\ expect' = Without(expect, id)
        /\ IF ~f.ok
             THEN /\ last' = call
                  /\ UNCHANGED nodes
             ELSE IF nodes[curr].Prev = 0
             THEN /\ last' = [call EXCEPT !.panic = TRUE]
                  /\ UNCHANGED nodes
             ELSE IF nodes[curr].Next = 0
             THEN /\ last' = [call EXCEPT !.panic = TRUE]
                  /\ nodes' = l47
             ELSE /\ last' = [call EXCEPT !.ret = curr, !.ok = TRUE]
                  /\ nodes' = l49
        /\ UNCHANGED <<head, tail>>
        /\ UNCHANGED <<cronVars, appVars, txnVars, fsVars, dockerVars, moreVars>>

\* A ledger that is only appended to.
NextAppend == \E id \in TxnIds, c \in Contents : LedgerAppend(id, c)

SpecAppend == Init /\ [][NextAppend]_vars

\* The linked-list ledger under all its operations.
NextLedger ==
    \/ \E id \in TxnIds, c \in Contents : LedgerAppend(id, c)
    \/ LLPop
    \/ \E id \in TxnIds : LLRemove(id)

SpecLedger == Init /\ [][NextLedger]_vars

\* ---------------------------------------------------- claims on MemLedger
\* The Transactions appended so far, oldest first.
Appended == [i \in Idx(nodes) |-> [ID |-> nodes[i].ID, Content |-> nodes[i].Content]]
FirstWith(id) == CHOOSE i \in Idx(nodes) : nodes[i].ID = id /\ \A j \in 1..(i - 1) : nodes[j].ID # id

\* C14: after any sequence of Append calls, Head() is the first appended
\* Transaction (nil on an empty ledger) and Find(id) is the appended
\* Transaction with that ID, the oldest one, or not-found when no appended
\* Transaction has the ID; in both implementations of MemLedger.
C14_HeadAndFind ==
    /\ MemHead = (IF nodes = <<>> THEN <<>> ELSE <<Appended[1]>>)
    /\ LLHead = (IF nodes = <<>> THEN 0 ELSE 1)
    /\ \A id \in TxnIds :
         IF \E i \in Idx(nodes) : nodes[i].ID = id
           THEN /\ MemFind(id) = [t |-> <<Appended[FirstWith(id)]>>, ok |-> TRUE]
                /\ LLFind(id) = [t |-> FirstWith(id), ok |-> TRUE, hang |-> FALSE]
           ELSE /\ MemFind(id) = [t |-> <<>>, ok |-> FALSE]
                /\ LLFind(id) = [t |-> 0, ok |-> FALSE, hang |-> FALSE]

\* Three Transactions were appended, the ID of the last one is new: Find
\* walks to the end for it, and an ID is still missing.
C14_Witness ==
    /\ Len(nodes) = 3 /\ Len(ledger) = 3
    /\ nodes[1].ID = "x" /\ nodes[2].ID = "x" /\ nodes[3].ID = "y"
    /\ LLFind("y").t = 3 /\ MemFind("y").ok

\* The addresses reached from head through Next links.
RECURSIVE WalkNext(_, _)
WalkNext(curr, fuel) ==
    IF curr = 0 \/ fuel = 0 THEN <<>> ELSE <<curr>> \o WalkNext(nodes[curr].Next, fuel - 1)
Forward == WalkNext(head, Len(nodes) + 1)

\* C15: Pop on a ledger that holds entries returns the most recently
\* appended one; afterwards it is not reached from Head() through Next
\* links, the new tail has no Next link, and Head() is nil when it was the
\* only entry.
C15_PopKeepsListIntact ==
    (last.op = "pop" /\ last.pre # <<>>) =>
        /\ last.ret = last.pre[Len(last.pre)]
        /\ \A i \in Idx(Forward) : Forward[i] # last.ret
        /\ tail # 0 => nodes[tail].Next = 0
        /\ Len(last.pre) = 1 => LLHead = 0

\* The entries and the links of the list agree with the calls made.
Consistent ==
    /\ Forward = expect
    /\ head = (IF expect = <<>> THEN 0 ELSE expect[1])
    /\ tail = (IF expect = <<>> THEN 0 ELSE expect[Len(expect)])
    /\ \A i \in Idx(expect) :
           nodes[expect[i]].Prev = (IF i = 1 THEN 0 ELSE expect[i - 1])

\* C16: Remove(id) of an ID that the ledger holds returns the entry with
\* true, whether it is the head, the tail, the only entry or a middle one,
\* without a panic, and leaves head, tail and the links of the remaining
\* entries consistent; Remove of an absent ID returns (nil, false) and
\* changes nothing.
C16_RemoveAnyEntry ==
    last.op = "remove" =>
        IF \E i \in Idx(last.pre) : nodes[last.pre[i]].ID = last.id
          THEN /\ ~last.panic /\ last.ok
               /\ nodes[last.ret].ID = last.id
               /\ Consistent
          ELSE /\ ~last.panic /\ ~last.ok /\ last.ret = 0
               /\ expect = last.pre


\* ------------------------------------------------- the ledger's normal path
MaxOps == 2         \* operations on a ledger's normal path
MaxNormalTxns == 1  \* PostTransaction requests among them

\* The operations of the normal path in any order: PostTransaction
\* requests, which append to Application.Ledger, and direct Append calls.
NextNormal ==
    \/ /\ Len(txns) + Len(nodes) < MaxOps /\ Len(txns) < MaxNormalTxns
       /\ PostTransaction("sound")
    \/ /\ Len(txns) + Len(nodes) < MaxOps
       /\ \E id \in TxnIds, c \in Contents : LedgerAppend(id, c)

SpecNormal == Init /\ [][NextNormal]_vars

\* The Append calls completed so far: one in every request that got to line
\* 380, and the direct ones.
RECURSIVE AppendsIn(_)
AppendsIn(i) == IF i = 0 THEN 0 ELSE AppendsIn(i - 1) + (txns[i].l1 - txns[i].l0)
Appends == AppendsIn(Len(txns)) + Len(nodes)

IsPrefix(s, t) == Len(s) <= Len(t) /\ SubSeq(t, 1, Len(s)) = s

\* C24: the ledger is append-only.  Every step leaves the entries that the
\* ledger held where they were and as they were, in the container/list
\* ledger and in the linked-list one, so an earlier content is a prefix of
\* every later one; and the ledger holds as many entries as Append calls
\* have completed.
C24_AppendOnly ==
    /\ [](/\ Len(ledger) = Appends
          /\ Len(Forward) = Len(nodes))
    /\ [][/\ IsPrefix(ledger, ledger')
          /\ IsPrefix(Forward, Forward')
          /\ IsPrefix(Appended, Appended')]_vars

\* A direct Append, then a request that appended the second entry behind it.
C24_Witness ==
    /\ Len(nodes) = 1 /\ Len(txns) = 1 /\ txns[1].l0 = 1 /\ txns[1].l1 = 2
    /\ Len(ledger) = 2 /\ ledger[1].ID = nodes[1].ID


\* ------------------------------------- concurrent requests on one MemLedger
MaxConc == 3        \* concurrent PostTransaction requests

\* net/http serves every request on a goroutine of its own, and neither the
\* handler nor MemLedger takes a lock: the steps of two requests at lines
\* 379-380 of the handler interleave.  Every read and every write of
\* l.head, l.tail and of a Transaction's links is a step.  A request is a
\* record: where it is, the address t of its Transaction, and the values p1
\* and p2 it read from l.tail at line 28.
ConcIds == 1..MaxConc
AppendPcs == {"l24", "l25", "l27", "l28p1", "l28p2", "l28prev", "l28next", "l30", "done"}

AtPc(g, pc) == g \in Idx(appends) /\ appends[g].pc = pc
GoTo(g, pc) == appends' = [appends EXCEPT ![g].pc = pc]
UnchangedButAppends == UNCHANGED <<cronVars, appVars, txnVars, fsVars, dockerVars, last, heapVars, query>>

\* Line 379 of the handler: t := NewTransaction(content), a Transaction
\* with a fresh ID and nil links at a fresh address; the request enters
\* Append.
ConcNewTransaction ==
    /\ Len(appends) < MaxConc
    /\ nodes' = Append(nodes, [ID |-> Len(nodes) + 1, Content |-> NoRaw, Prev |-> 0, Next |-> 0])
    /\ appends' = Append(appends, [pc |-> "l24", t |-> Len(nodes) + 1, p1 |-> 0, p2 |-> 0])
    /\ UNCHANGED <<head, tail, expect>>
    /\ UnchangedButAppends

\* Line 24: if l.head == nil.
AppendReadHead(g) ==
    /\ AtPc(g, "l24")
    /\ GoTo(g, IF head = 0 THEN "l25" ELSE "l27")
    /\ UNCHANGED <<nodes, head, tail, expect>>
    /\ UnchangedButAppends

\* Line 25: l.head = t.
AppendSetHead(g) ==
    /\ AtPc(g, "l25")
    /\ head' = appends[g].t
    /\ GoTo(g, "l27")
    /\ UNCHANGED <<nodes, tail, expect>>
    /\ UnchangedButAppends

\* Line 27: if l.tail != nil.
AppendReadTail(g) ==
    /\ AtPc(g, "l27")
    /\ GoTo(g, IF tail # 0 THEN "l28p1" ELSE "l30")
    /\ UNCHANGED <<nodes, head, tail, expect>>
    /\ UnchangedButAppends

\* Line 28, t.Prev, l.tail.Next = l.tail, t: the operand l.tail of the
\* second target is read, then the value l.tail, then the two assignments
\* are made from left to right.
AppendReadTarget(g) ==
    /\ AtPc(g, "l28p1")
    /\ appends' = [appends EXCEPT ![g].pc = "l28p2", ![g].p1 = tail]
    /\ UNCHANGED <<nodes, head, tail, expect>>
    /\ UnchangedButAppends

AppendReadValue(g) ==
    /\ AtPc(g, "l28p2")
    /\ appends' = [appends EXCEPT ![g].pc = "l28prev", ![g].p2 = tail]
    /\ UNCHANGED <<nodes, head, tail, expect>>
    /\ UnchangedButAppends

AppendSetPrev(g) ==
    /\ AtPc(g, "l28prev")
    /\ nodes' = [nodes EXCEPT ![appends[g].t].Prev = appends[g].p2]
    /\ GoTo(g, "l28next")
    /\ UNCHANGED <<head, tail, expect>>
    /\ UnchangedButAppends

AppendSetNext(g) ==
    /\ AtPc(g, "l28next")
    /\ nodes' = [nodes EXCEPT ![appends[g].p1].Next = appends[g].t]
    /\ GoTo(g, "l30")
    /\ UNCHANGED <<head, tail, expect>>
    /\ UnchangedButAppends

\* Line 30: l.tail = t, and Append returns: the call is complete.
AppendSetTail(g) ==
    /\ AtPc(g, "l30")
    /\ tail' = appends[g].t
    /\ expect' = Append(expect, appends[g].t)
    /\ GoTo(g, "done")
    /\ UNCHANGED <<nodes, head>>
    /\ UnchangedButAppends

NextConc ==
    \/ ConcNewTransaction
    \/ \E g \in ConcIds : AppendReadHead(g)
    \/ \E g \in ConcIds : AppendSetHead(g)
    \/ \E g \in ConcIds : AppendReadTail(g)
    \/ \E g \in ConcIds : AppendReadTarget(g)
    \/ \E g \in ConcIds : AppendReadValue(g)
    \/ \E g \in ConcIds : AppendSetPrev(g)
    \/ \E g \in ConcIds : AppendSetNext(g)
    \/ \E g \in ConcIds : AppendSetTail(g)

SpecConc == Init /\ [][NextConc]_vars

\* C23: no append of concurrent requests is lost.  The Transactions whose
\* Append has completed are all reached from Head() through Next links, in
\* the order in which the calls completed, and Find finds each of them.
C23_NoAppendLost ==
    /\ \A i \in Idx(expect) :
           /\ \E f \in Idx(Forward) : Forward[f] = expect[i]
           /\ LLFind(nodes[expect[i]].ID) = [t |-> expect[i], ok |-> TRUE, hang |-> FALSE]
    /\ \A i, j \in Idx(expect) : \A f, h \in Idx(Forward) :
           (i < j /\ Forward[f] = expect[i] /\ Forward[h] = expect[j]) => f < h


\* -------------------------------------------------------------- FSLibrary
\* The manifests posted: a name, an image, a command and its arguments.
Manifests == [Type : Names, Image : {"img1", "img2"}, Cmd : {"run"}, Args : {<<>>, <<"-v">>}]

\* The content of a file is the sequence of the JSON values in it.
\* json.NewEncoder(f).Encode(manifest) writes the JSON object of the
\* manifest, its Type under the key txn_type.
Encode(m) == <<[txn_type |-> m.Type, Image |-> m.Image, Cmd |-> m.Cmd, Args |-> m.Args]>>

\* json.NewDecoder(f).Decode(&manifest) reads the first value; an empty
\* file is an error.
Decode(text) ==
    IF text = <<>> THEN [ok |-> FALSE, m |-> NoManifest]
    ELSE [ok |-> TRUE,
          m |-> [Type |-> text[1].txn_type, Image |-> text[1].Image,
                 Cmd |-> text[1].Cmd, Args |-> text[1].Args]]

\* ensurePath: the first call runs os.MkdirAll(l.BasePath, 0600), which
\* makes a missing directory with mode 0600 and leaves an existing one.
DirAfterEnsure == IF ~fsOnce /\ fsDir = "absent" THEN "noexec" ELSE fsDir

\* A file of the directory can be opened: the directory can be entered and
\* the file exists.
CanOpen(dir, name) == (dir = "ok" \/ (dir = "noexec" /\ fsRoot)) /\ name \in DOMAIN fsFiles

\* Put, lines 98-112.  os.OpenFile is called with os.O_WRONLY alone: it
\* opens an existing file and fails for a missing one.  The manifest is
\* written from the start of the file; a longer old content stays behind
\* it, where the decoder of Get does not read.
FSPut(manifest, pulled) ==
    LET dir == DirAfterEnsure
        call == [NoFSCall EXCEPT !.op = "put", !.name = manifest.Type, !.manifest = manifest,
                                 !.pulled = pulled, !.existed = manifest.Type \in DOMAIN fsFiles]
    IN  /\ fsOnce' = TRUE
        /\ fsDir' = dir
        /\ IF ~pulled
             THEN fsLast' = [call EXCEPT !.err = "pull"] /\ UNCHANGED fsFiles
             ELSE IF ~CanOpen(dir, manifest.Type)
             THEN fsLast' = [call EXCEPT !.err = "create"] /\ UNCHANGED fsFiles
             ELSE /\ fsLast' = call
                  /\ fsFiles' = [fsFiles EXCEPT ![manifest.Type] = Encode(manifest)]
        /\ UNCHANGED fsRoot
        /\ UNCHANGED <<cronVars, appVars, txnVars, ledVars, dockerVars, moreVars>>

\* Get, lines 62-89: any error of os.Open is ErrContractNotExist.
FSGet(name) ==
    LET dir == DirAfterEnsure
        call == [NoFSCall EXCEPT !.op = "get", !.name = name, !.existed = name \in DOMAIN fsFiles]
    IN  /\ fsOnce' = TRUE
        /\ fsDir' = dir
        /\ IF ~CanOpen(dir, name)
             THEN fsLast' = [call EXCEPT !.err = "notexist"]
             ELSE IF ~Decode(fsFiles[name]).ok
             THEN fsLast' = [call EXCEPT !.err = "json"]
             ELSE LET m == Decode(fsFiles[name]).m
                  IN  fsLast' = [call EXCEPT !.contract =
                                    [Name |-> m.Type, Image |-> m.Image, Command |-> m.Cmd, Args |-> m.Args]]
        /\ UNCHANGED <<fsFiles, fsRoot>>
        /\ UNCHANGED <<cronVars, appVars, txnVars, ledVars, dockerVars, moreVars>>

\* The library starts on a BasePath that is missing, or that exists with
\* some empty files in it, in a process that is privileged or not.
InitLib ==
    /\ InitJobs /\ InitTxn /\ InitLedger /\ InitDocker /\ InitMore
    /\ fsOnce = FALSE /\ fsLast = NoFSCall
    /\ fsRoot \in BOOLEAN
    /\ \/ fsDir = "absent" /\ fsFiles = <<>>
       \/ fsDir = "ok" /\ \E S \in SUBSET Names : fsFiles = [n \in S |-> <<>>]

NextLib ==
    \/ \E m \in Manifests, pulled \in BOOLEAN : FSPut(m, pulled)
    \/ \E n \in Names : FSGet(n)

SpecLib == InitLib /\ [][NextLib]_vars

\* ---------------------------------------------------- claims on FSLibrary
\* C19: Put of a manifest whose name has no manifest in the library yet
\* succeeds when the image pull succeeds; Get of a name returns a contract
\* with the Image, Command and Args of the manifest stored for it; Get of a
\* name without a manifest returns ErrContractNotExist.
C19_PutThenGet ==
    /\ (fsLast.op = "put" /\ fsLast.pulled /\ ~fsLast.existed) => fsLast.err = "none"
    /\ (fsLast.op = "get" /\ fsLast.name \in DOMAIN fsFiles /\ fsFiles[fsLast.name] # <<>>) =>
           /\ fsLast.err = "none"
           /\ fsLast.contract.Image = fsFiles[fsLast.name][1].Image
           /\ fsLast.contract.Command = fsFiles[fsLast.name][1].Cmd
           /\ fsLast.contract.Args = fsFiles[fsLast.name][1].Args
    /\ (fsLast.op = "get" /\ ~fsLast.existed) => fsLast.err = "notexist"

\* C28: a call of Get leaves what the library has on disk, the directory
\* and the files in it, as it was, and a Get that follows a Get of the same
\* name returns what the first one returned.
C28_GetSideEffectFree ==
    [][fsLast'.op = "get" =>
           /\ fsDir' = fsDir /\ fsFiles' = fsFiles
           /\ (fsLast.op = "get" /\ fsLast.name = fsLast'.name) =>
                  fsLast'.err = fsLast.err /\ fsLast'.contract = fsLast.contract]_vars


\* ------------------------------------------------ docker.Contract.Execute
MaxExecs == 2       \* calls of docker.Contract.Execute

\* Execute works on its collaborators, docker.Run and the exec.Cmd it
\* returns, through calls that each give a value or an error; a call is
\* modelled by that signature, either result being possible.  A call of
\* Execute is a record: where it is, the state of the input stream w and of
\* the output stream r ("none" before it is obtained), whether w.Close() is
\* deferred, what was written, and what it returned.
Payloads == {"p1", "p2"}
Outputs == {"", "out"}
ExecErrs == {"run", "stdin", "stdout", "write", "read"}

Running == calls # <<>> /\ calls[Len(calls)].pc # "returned"
Cur == calls[Len(calls)]
SetCur(c) == calls' = [calls EXCEPT ![Len(calls)] = c]

\* Execute returns: the deferred calls run, then the caller has the result.
Return(c, out, err) ==
    SetCur([c EXCEPT !.pc = "returned", !.out = out, !.err = err,
                     !.w = IF c.deferred THEN "closed" ELSE @])

\* A caller calls Execute(payload).
CallExecute(payload) ==
    /\ ~Running /\ Len(calls) < MaxExecs
    /\ calls' = Append(calls, [pc |-> "run", payload |-> payload, w |-> "none", r |-> "none",
                               deferred |-> FALSE, wrote |-> "", out |-> "", err |-> "none"])
    /\ UNCHANGED <<cronVars, appVars, txnVars, ledVars, fsVars, moreVars>>

\* Lines 22-25: cmd, err := Run(c.Image, c.Command, c.Env, c.Args...).
DockerRun ==
    /\ Running /\ Cur.pc = "run"
    /\ \E ok \in BOOLEAN :
         IF ok THEN SetCur([Cur EXCEPT !.pc = "stdin"]) ELSE Return(Cur, "", "run")
    /\ UNCHANGED <<cronVars, appVars, txnVars, ledVars, fsVars, moreVars>>

\* Lines 26-29: w, err := cmd.StdinPipe().
StdinPipe ==
    /\ Running /\ Cur.pc = "stdin"
    /\ \E ok \in BOOLEAN :
         IF ok THEN SetCur([Cur EXCEPT !.pc = "stdout", !.w = "open"]) ELSE Return(Cur, "", "stdin")
    /\ UNCHANGED <<cronVars, appVars, txnVars, ledVars, fsVars, moreVars>>

\* Lines 30-34: r, err := cmd.StdoutPipe(), and after its error check
\* defer w.Close().
StdoutPipe ==
    /\ Running /\ Cur.pc = "stdout"
    /\ \E ok \in BOOLEAN :
         IF ok THEN SetCur([Cur EXCEPT !.pc = "write", !.r = "open", !.deferred = TRUE])
         ELSE Return(Cur, "", "stdout")
    /\ UNCHANGED <<cronVars, appVars, txnVars, ledVars, fsVars, moreVars>>

\* Lines 35-37: w.Write(payload).
WritePayload ==
    /\ Running /\ Cur.pc = "write"
    /\ \E ok \in BOOLEAN :
         IF ok THEN SetCur([Cur EXCEPT !.pc = "read", !.wrote = Cur.payload])
         ELSE Return(Cur, "", "write")
    /\ UNCHANGED <<cronVars, appVars, txnVars, ledVars, fsVars, moreVars>>

\* Line 38: return ioutil.ReadAll(r).
ReadAll ==
    /\ Running /\ Cur.pc = "read"
    /\ \E ok \in BOOLEAN, out \in Outputs : Return(Cur, out, IF ok THEN "none" ELSE "read")
    /\ UNCHANGED <<cronVars, appVars, txnVars, ledVars, fsVars, moreVars>>

NextDocker ==
    \/ \E p \in Payloads : CallExecute(p)
    \/ DockerRun
    \/ StdinPipe
    \/ StdoutPipe
    \/ WritePayload
    \/ ReadAll

SpecDocker == Init /\ [][NextDocker]_vars

EnvEntries == {"K1=v", "K2=v"}
DockerContracts == [Image : {"img"}, Command : {"cmd"}, Env : SUBSET EnvEntries, Args : {<<>>, <<"-v">>}]

\* What c.Run() of an exec.Cmd can do: fail to start the process, start it
\* and wait for an exit that is not a success, start it and wait for its
\* successful exit.
RunOutcomes == {"nostart", "exitfail", "ok"}

RECURSIVE EnvArr(_)
EnvArr(order) == IF order = <<>> THEN <<>> ELSE <<"-e", Head(order)>> \o EnvArr(Tail(order))

\* docker.go, lines 33-43: the arguments are the -e pairs of the
\* environment in the order the map is ranged over, then -d, the image, the
\* command and the arguments; the command is run with c.Run(), which starts
\* the process and waits for it, and the Cmd is returned with Run's error.
\* Process is whether the Cmd has started a process.
Run(image, cmd, order, args, outcome) ==
    [cmd |-> [Path |-> "docker",
              Args |-> EnvArr(order) \o <<"-d", image, cmd>> \o args,
              Process |-> outcome # "nostart"],
     err |-> outcome # "ok"]

\* exec.Cmd.StdinPipe and StdoutPipe: refused on a Cmd that has started its
\* process ("exec: StdinPipe after process started"); else the pipe is made,
\* unless the system fails to make one.
CmdPipe(cmd, fails) ==
    IF cmd.Process THEN "refused" ELSE IF fails THEN "fails" ELSE "ok"

\* The operation of Execute that the system fails, if any.
Faults == {"none", "stdin", "stdout", "write", "read"}

NoResult ==
    [launched |-> FALSE, w |-> "none", r |-> "none", wrote |-> <<>>, out |-> <<>>,
     err |-> "none", at |-> "none"]

\* contract.go, lines 21-39, on a Contract c with a payload: order is the
\* order of the range over c.Env, run what c.Run() does, fault the
\* operation that the system fails, output what the process writes.  The
\* result says whether the launch succeeded, the last states of the two
\* streams, what was written, what was returned, and for an error where it
\* arose ("fails") or that the library refused the call ("refused").
ExecuteOnCmd(c, payload, order, run, fault, output) ==
    LET l == Run(c.Image, c.Command, order, c.Args, run)
        res == [NoResult EXCEPT !.launched = ~l.err]
        in == CmdPipe(l.cmd, fault = "stdin")
        outp == CmdPipe(l.cmd, fault = "stdout")
    IN  IF l.err THEN [res EXCEPT !.err = "run", !.at = "fails"]
        ELSE IF in # "ok" THEN [res EXCEPT !.err = "stdin", !.at = in]
        ELSE IF outp # "ok" THEN [res EXCEPT !.w = "open", !.err = "stdout", !.at = outp]
        ELSE IF fault = "write"
               THEN [res EXCEPT !.w = "closed", !.r = "open", !.err = "write", !.at = "fails"]
        ELSE IF fault = "read"
               THEN [res EXCEPT !.w = "closed", !.r = "open", !.wrote = <<payload>>,
                                !.err = "read", !.at = "fails"]
        ELSE [res EXCEPT !.w = "closed", !.r = "open", !.wrote = <<payload>>, !.out = <<output>>]

\* One call of Execute, from its first line to its return.  A fault is
\* drawn for a process that was launched, an output for one that no fault
\* hits.
ContractExecute(c, payload) ==
    /\ Len(calls) < MaxExecs
    /\ \E order \in Orders(c.Env), run \in RunOutcomes :
       \E fault \in (IF run = "ok" THEN Faults ELSE {"none"}) :
       \E output \in (IF run = "ok" /\ fault = "none" THEN Outputs ELSE {""}) :
         LET l == Run(c.Image, c.Command, order, c.Args, run) IN
         calls' = Append(calls,
                    [pc |-> "returned", payload |-> payload, args |-> l.cmd.Args, run |-> run,
                     fault |-> fault, output |-> output,
                     res |-> ExecuteOnCmd(c, payload, order, run, fault, output)])
    /\ UNCHANGED <<cronVars, appVars, txnVars, ledVars, fsVars, moreVars>>

NextExec == \E c \in DockerContracts, p \in Payloads : ContractExecute(c, p)

SpecExec == Init /\ [][NextExec]_vars

\* C21: a call of Execute whose process was launched without error and in
\* which the system failed no stream operation has obtained both streams,
\* written the payload and returned all the output with no error; a call
\* returns an error only when the launch or a stream operation failed.
C21_LaunchedThenPiped ==
    \A i \in Idx(calls) :
        LET x == calls[i] IN
        /\ (x.res.launched /\ x.fault = "none") =>
               /\ x.res.w # "none" /\ x.res.r # "none"
               /\ x.res.wrote = <<x.payload>>
               /\ x.res.out = <<x.output>>
               /\ x.res.err = "none"
        /\ x.res.err # "none" => x.res.at = "fails"


\* ------------------------------------------------------------- BoltDBHeap
BucketNames == {"b1", "b2"}
HeapKeys == {"k1", "k2"}
HeapValues == {<<1>>, <<2>>}

\* initOnce, lines 126-138: the first call opens the file with bolt.Open,
\* which can fail; once.Do runs nothing in a later call, so a later call
\* returns nil whatever c.db is.  What a call finds: the state of c.db after
\* initOnce and the error it returns.
initOnce(opens) ==
    IF boltDb = "unopened"
      THEN (IF opens THEN [db |-> "open", err |-> "none"] ELSE [db |-> "nil", err |-> "open"])
      ELSE [db |-> boltDb, err |-> "none"]

\* bolt's Tx.CreateBucketIfNotExists in a transaction on the buckets bs:
\* refused in a transaction that is not writable (ErrTxNotWritable), else
\* the bucket is made when it is missing.
CreateBucketIfNotExists(bs, writable, bucket) ==
    IF ~writable THEN [err |-> "txnotwritable", bs |-> bs]
    ELSE IF bucket \in DOMAIN bs THEN [err |-> "none", bs |-> bs]
    ELSE [err |-> "none", bs |-> [b \in (DOMAIN bs) \cup {bucket} |-> IF b = bucket THEN <<>> ELSE bs[b]]]

\* bolt's Bucket.Put and Bucket.Get on the keys kv of a bucket.
BucketPut(kv, key, value) == [k \in (DOMAIN kv) \cup {key} |-> IF k = key THEN value ELSE kv[k]]
BucketGet(kv, key) == IF key \in DOMAIN kv THEN <<kv[key]>> ELSE <<>>

HeapUnchanged == UNCHANGED <<cronVars, appVars, txnVars, ledVars, fsVars, dockerVars, appends, query>>

\* Put, lines 45-60: initOnce, then c.db.Update, a writable transaction
\* that is committed when the function returns nil.  c.db.Update on the nil
\* db left by a failed Open is a nil dereference.
HeapPut(bucket, key, value) ==
    \E opens \in BOOLEAN :
        LET i == initOnce(opens)
            call == [NoHeapCall EXCEPT !.op = "put", !.bucket = bucket, !.key = key, !.value = value]
            c == CreateBucketIfNotExists(buckets, TRUE, bucket)
        IN  /\ boltDb' = i.db
            /\ IF i.err # "none"
                 THEN heapLast' = [call EXCEPT !.err = i.err] /\ UNCHANGED <<buckets, lastPut>>
                 ELSE IF i.db = "nil"
                 THEN heapLast' = [call EXCEPT !.err = "panic"] /\ UNCHANGED <<buckets, lastPut>>
                 ELSE /\ heapLast' = call
                      /\ buckets' = [c.bs EXCEPT ![bucket] = BucketPut(@, key, value)]
                      /\ lastPut' = BucketPut(lastPut, <<bucket, key>>, value)
            /\ HeapUnchanged

\* Get, lines 66-85: initOnce, then c.db.View, a read-only transaction, in
\* which tx.CreateBucketIfNotExists is called before buck.Get.
HeapGet(bucket, key) ==
    \E opens \in BOOLEAN :
        LET i == initOnce(opens)
            call == [NoHeapCall EXCEPT !.op = "get", !.bucket = bucket, !.key = key]
            c == CreateBucketIfNotExists(buckets, FALSE, bucket)
            vb == BucketGet(c.bs[bucket], key)
        IN  /\ boltDb' = i.db
            /\ heapLast' =
                 IF i.err # "none" THEN [call EXCEPT !.err = i.err]
                 ELSE IF i.db = "nil" THEN [call EXCEPT !.err = "panic"]
                 ELSE IF c.err # "none" THEN [call EXCEPT !.err = c.err]
                 ELSE IF vb = <<>> THEN [call EXCEPT !.err = "notexist"]
                 ELSE [call EXCEPT !.ret = vb]
            /\ UNCHANGED <<buckets, lastPut>>
            /\ HeapUnchanged

NextHeap ==
    \/ \E b \in BucketNames, k \in HeapKeys, v \in HeapValues : HeapPut(b, k, v)
    \/ \E b \in BucketNames, k \in HeapKeys : HeapGet(b, k)

SpecHeap == Init /\ [][NextHeap]_vars

\* ---------------------------------------------------- claims on BoltDBHeap
\* C27: on a heap whose file opened, Get(bucket, key) returns the value of
\* the last Put to that bucket and key, and ErrHeapNotExist when no Put was
\* made to them, whatever was put elsewhere.
C27_LastWriteWins ==
    (heapLast.op = "get" /\ boltDb = "open") =>
        IF <<heapLast.bucket, heapLast.key>> \in DOMAIN lastPut
          THEN heapLast.err = "none" /\ heapLast.ret = <<lastPut[<<heapLast.bucket, heapLast.key>>]>>
          ELSE heapLast.err = "notexist" /\ heapLast.ret = <<>>

\* -------------------------------------------------------------- GetSCHeap
\* The Heap of the application as its interface describes it: Get returns
\* the value of the last Put that stored the bucket and key, and an error
\* when there is none.  puts is the sequence of the Put calls made so far.
PutsOf(puts, bucket, key) ==
    {i \in Idx(puts) : puts[i].bucket = bucket /\ puts[i].key = key /\ ~puts[i].err}
SoundGet(puts, bucket, key) ==
    LET is == PutsOf(puts, bucket, key)
    IN  IF is = {} THEN [err |-> TRUE, value |-> <<>>]
        ELSE [err |-> FALSE, value |-> puts[CHOOSE i \in is : \A j \in is : j <= i].value]

\* writeJSONResponse(w, h) with h a []byte: encoding/json writes a byte
\* slice as the string of its base64 text.  A character is given by its
\* index in the base64 alphabet, the padding '=' by 64.
RECURSIVE Base64(_)
Base64(bs) ==
    IF bs = <<>> THEN <<>>
    ELSE LET n == Len(bs)
             w == bs[1] * 65536 + (IF n >= 2 THEN bs[2] * 256 ELSE 0) + (IF n >= 3 THEN bs[3] ELSE 0)
         IN  <<w \div 262144, (w \div 4096) % 64,
               IF n >= 2 THEN (w \div 64) % 64 ELSE 64,
               IF n >= 3 THEN w % 64 ELSE 64>>
                 \o Base64(IF n >= 3 THEN SubSeq(bs, 4, n) ELSE <<>>)

\* GetSCHeap, lines 330-340: the route variables sc_name and key, then
\* a.Heap.Get(name, key) with sc_name as the bucket; 500 when Get returns
\* an error, else the value as the JSON body.
GetSCHeap(name, key) ==
    /\ LET g == SoundGet(heapPuts, name, key)
       IN  query' = [name |-> name, key |-> key,
                     status |-> IF g.err THEN 500 ELSE 200,
                     body |-> IF g.err THEN <<>> ELSE Base64(g.value),
                     puts |-> Len(heapPuts)]
    /\ UNCHANGED <<cronVars, appVars, txnVars, ledVars, fsVars, dockerVars, appends, heapVars>>

NextQuery ==
    \/ PostTransaction("queried")
    \/ \E name \in TxnTypes, key \in Keys : GetSCHeap(name, key)

SpecQuery == Init /\ [][NextQuery]_vars

\* ----------------------------------------------------- claims on GetSCHeap
\* The value of the last Put under key, in whatever bucket.
LastWritten(puts, key) ==
    puts[CHOOSE i \in Idx(puts) : puts[i].key = key /\ \A j \in Idx(puts) : puts[j].key = key => j <= i].value

\* C32: a query for contract C and key k that follows a request answered
\* 200 for contract C whose output is an object with a numeric field k is
\* answered 200 with the value last written for k.
C32_QueryReadsSubmission ==
    \A i \in Idx(txns) :
        LET t == txns[i]
            u == Unmarshal(t.out.raw)
        IN  (/\ query.status # 0 /\ t.h1 <= query.puts
             /\ t.status = 200 /\ t.type = query.name
             /\ u.ok /\ query.key \in DOMAIN u.m /\ u.m[query.key].kind = "num")
            => /\ query.status = 200
               /\ query.body = Base64(LastWritten(SubSeq(heapPuts, 1, query.puts), query.key))

=============================================================================
